---- MODULE Spec2Model ----
(***************************************************************************)
(* SnapTrack: the song queue store, the integration registry and the sync  *)
(* reconciliation code of the Queue screen, as a state machine.            *)
(*                                                                         *)
(* Every "await" of the TypeScript source is a point where another handler *)
(* may run, so each asynchronous function is cut into one action per       *)
(* await; the synchronous code between two awaits is one atomic step.      *)
(***************************************************************************)
EXTENDS Integers, Sequences, FiniteSets, TLC

VARIABLES
  store,         \* AsyncStorage SONG_QUEUE: the stored queue (sequence of QueuedSong)
  registry,      \* AsyncStorage INTEGRATIONS_STATUS: <<>> when nothing is stored, else <<state>>
  defaults,      \* the in-memory DEFAULT_INTEGRATIONS object of integrationsService
  playlist,      \* remote membership of the selected playlist, per platform
  queue,         \* QueueScreen state: queue
  integrations,  \* QueueScreen state: integrations (<<>> is null, else <<state>>)
  loading,       \* QueueScreen state: loading
  syncing,       \* QueueScreen state: syncing
  alert,         \* the last Alert.alert shown by the Queue screen
  task,          \* the sync operations in flight (one record per slot)
  started,       \* number of sync operations started so far
  called,        \* history: platforms for which a catalog call or a status write was issued
  adds,          \* history: the <<song id, platform>> pairs for which an add call was issued
  last,          \* history: outcome of the latest completed syncSingleSong per song and platform
  rop,           \* the registry operations in flight
  regStarted,    \* number of registry operations started so far
  flagged,       \* AsyncStorage flagged_images: the stored list of FlaggedImage
  capture,       \* HomeScreen: the capture session (state, selectedImages, locals of startProcessing)
  lastRead,      \* history: the latest read of a store through a service's read function
  svc,           \* songQueueService: the calls in flight, when the service is called directly
  clock,         \* the value of Date.now()
  yt,            \* YouTube auth: the stored tokens, the call in flight and what the probe stored
  srv,           \* server: the Spotify access-token cache and the request in flight
  proc,          \* processingService.processImages: the run in flight
  led            \* the calls of addFlaggedImage / removeFlaggedImage in flight

vars == <<store, registry, defaults, playlist, queue, integrations, loading,
          syncing, alert, task, started, called, adds, last, rop, regStarted,
          flagged, capture, lastRead, svc, clock,
          yt, srv, proc, led>>

(***************************************************************************)
(* Bounds of the model.                                                    *)
(***************************************************************************)
NumSongs == 2      \* songs in the stored queue at start
MaxSeqOps == 3     \* sync operations started in one behaviour when run one at a time
MaxRegOps == 2     \* registry operations started in one behaviour
NumImages == 2     \* images selected in a capture session, at most
MaxDetected == 2   \* entries in the song list the classifier answers with, at most
MaxCalls == 3      \* calls of songQueueService in one behaviour, when it is called directly
MaxYtOps == 3      \* YouTube calls, probes, disconnects and exchanges in one behaviour
MaxSrvReqs == 3    \* requests handled by the server in one behaviour
MaxNow == 3        \* ticks of the server's clock
MaxFlagged == 3    \* calls of addFlaggedImage in one behaviour

None == "none"

Platforms == {"spotify", "youtube", "apple_music", "amazon_music"}
SyncPlatforms == {"spotify", "youtube"}
\* the slots of the sync operations in flight: two operations may overlap
Tasks == {1, 2}
\* when operations may overlap, a behaviour starts one operation per slot
OverlapOps == Cardinality(Tasks)
SongIds == 1..NumSongs

(***************************************************************************)
(* The catalogs.  Two titles: the first is found on both platforms, the    *)
(* second is missing from the Spotify catalog.                             *)
(***************************************************************************)
Titles == {"ta", "tb"}

Catalog(p, title) ==
  IF p = "spotify"
    THEN (IF title = "ta" THEN "T1" ELSE None)
    ELSE (IF title = "ta" THEN "V1" ELSE "V2")

(***************************************************************************)
(* Sync status records of songQueueService.                                *)
(***************************************************************************)
NoStatus == [synced |-> FALSE, remoteId |-> None, error |-> None]

SyncedStatus(id) == [synced |-> TRUE, remoteId |-> id, error |-> None]

FailedStatus(msg) == [synced |-> FALSE, remoteId |-> None, error |-> msg]

NotFoundMessage(p) ==
  IF p = "spotify" THEN "Song not found on Spotify" ELSE "Video not found on YouTube"

(***************************************************************************)
(* integrationsService: DEFAULT_INTEGRATIONS and getIntegrations.          *)
(***************************************************************************)
IntegrationDefaultsYouTubeOff ==
  [p \in Platforms |->
     [connected |-> FALSE, available |-> (p = "spotify"),
      selectedPlaylistId |-> None, selectedPlaylistName |-> None, error |-> None]]

DEFAULT_INTEGRATIONS ==
  [p \in Platforms |->
     [connected |-> FALSE, available |-> (p \in {"spotify", "youtube"}),
      selectedPlaylistId |-> None, selectedPlaylistName |-> None, error |-> None]]

\* { ...DEFAULT_INTEGRATIONS, ...stored }: a shallow merge, per platform key
getIntegrations ==
  IF registry = <<>> THEN defaults
  ELSE [p \in Platforms |-> IF p \in DOMAIN registry[1] THEN registry[1][p] ELSE defaults[p]]

\* getSongQueue: the parsed stored queue
getSongQueue == store

(***************************************************************************)
(* QueueScreen.getConnectedPlatforms, on a screen's integrations state.    *)
(***************************************************************************)
Configured(integ, p) ==
  integ[p].connected /\ integ[p].selectedPlaylistId # None

getConnectedPlatforms(integ) ==
  IF integ = <<>> THEN <<>>
  ELSE (IF Configured(integ[1], "spotify") THEN <<"spotify">> ELSE <<>>)
       \o (IF Configured(integ[1], "youtube") THEN <<"youtube">> ELSE <<>>)


(***************************************************************************)
(* Helpers on queues and task records.                                     *)
(***************************************************************************)
\* queue.findIndex(s => s.id === songId); 0 stands for -1
FindIndex(q, songId) ==
  IF \E i \in 1..Len(q) : q[i].id = songId
    THEN CHOOSE i \in 1..Len(q) : q[i].id = songId /\ \A j \in 1..(i - 1) : q[j].id # songId
    ELSE 0

StatusOf(q, songId, p) ==
  IF FindIndex(q, songId) = 0 THEN NoStatus ELSE q[FindIndex(q, songId)].syncStatus[p]

IdleTask ==
  [pc |-> "idle", kind |-> None, songs |-> <<>>, si |-> 0, platforms |-> <<>>, pi |-> 0,
   syncingSeen |-> FALSE, existing |-> {}, found |-> None, status |-> NoStatus,
   tq |-> <<>>, addIssued |-> FALSE, callFailed |-> FALSE, added |-> {}]

CurSong(tk) == tk.songs[tk.si]
CurPlatform(tk) == tk.platforms[tk.pi]

InFlight(t) == task[t].pc \notin {"idle", "threw"}

FreeSlot == IF \E t \in Tasks : task[t].pc = "idle"
              THEN CHOOSE t \in Tasks : task[t].pc = "idle" /\ \A u \in Tasks : u < t => task[u].pc # "idle"
              ELSE 0

(***************************************************************************)
(* The loops of syncAllSongs (165-176) and syncSingleSong (191-195), run   *)
(* synchronously from position (si, pi) up to the next await: either the   *)
(* getPlaylistTracks / getPlaylistVideoIds call of the next pair that is   *)
(* not synced in the operation's own queue snapshot, or loadData().        *)
(***************************************************************************)
\* the test of lines 168 and 192 on the captured song object
NeedsSyncAlways(song, p) == TRUE

NeedsSync(song, p) == ~song.syncStatus[p].synced

\* line 166: the closure's value of `syncing`, read at the top of each song iteration
StopRequested(tk) == tk.kind = "all" /\ tk.syncingSeen = FALSE

\* the task record at the start of an invocation of syncSongToPlatform
ResetCall(tk) ==
  [tk EXCEPT !.existing = {}, !.found = None, !.status = NoStatus,
             !.tq = <<>>, !.addIssued = FALSE, !.callFailed = FALSE]

\* lines 93 and 120: syncSongToPlatform has a branch for these platforms only
\* and returns at once for any other
HasBranch(p) == p \in {"spotify", "youtube"}

RECURSIVE Walk(_, _, _, _)
Walk(tk, si, pi, atTop) ==
  IF si > Len(tk.songs) THEN [ResetCall(tk) EXCEPT !.pc = "load"]
  ELSE IF atTop /\ StopRequested(tk) THEN [ResetCall(tk) EXCEPT !.pc = "load"]
  ELSE IF pi > Len(tk.platforms) THEN Walk(tk, si + 1, 1, TRUE)
  ELSE IF NeedsSync(tk.songs[si], tk.platforms[pi]) /\ HasBranch(tk.platforms[pi])
    THEN [ResetCall(tk) EXCEPT !.pc = "fetch", !.si = si, !.pi = pi]
  ELSE Walk(tk, si, pi + 1, FALSE)

\* the operation enters its loop
Enter(tk) == Walk(tk, 1, 1, TRUE)

\* syncSongToPlatform has returned to the loop
Return(tk) == Walk(tk, tk.si, tk.pi + 1, FALSE)

(***************************************************************************)
(* syncSongToPlatform (89-154).  The catch of lines 148-153 turns a failed *)
(* call into a status write.                                               *)
(***************************************************************************)
\* the message of the Error thrown by a failed call: the error text the
\* platform's API answered with
ErrorMessage(p, call) ==
  IF p = "spotify" THEN "Spotify API error" ELSE "YouTube API error"

OnCallErrorUncaught(tk, msg) ==
  [tk EXCEPT !.pc = "threw", !.callFailed = TRUE]

OnCallError(tk, msg) ==
  [tk EXCEPT !.pc = "upd_read", !.status = FailedStatus(msg), !.callFailed = TRUE]

\* lines 99-115 and 126-142: what follows a search that answered
AfterSearchNoDedup(tk, result) ==
  IF result = None
    THEN [tk EXCEPT !.pc = "upd_read", !.found = None,
                    !.status = FailedStatus(NotFoundMessage(CurPlatform(tk)))]
  ELSE [tk EXCEPT !.pc = "add", !.found = result]

AfterSearchAddsMissing(tk, result) ==
  IF result = None
    THEN [tk EXCEPT !.pc = "add", !.found = result]
  ELSE IF result \in tk.existing
    THEN [tk EXCEPT !.pc = "upd_read", !.found = result, !.status = SyncedStatus(result)]
  ELSE [tk EXCEPT !.pc = "add", !.found = result]

AfterSearch(tk, result) ==
  IF result = None
    THEN [tk EXCEPT !.pc = "upd_read", !.found = None,
                    !.status = FailedStatus(NotFoundMessage(CurPlatform(tk)))]
  ELSE IF result \in tk.existing
    THEN [tk EXCEPT !.pc = "upd_read", !.found = result, !.status = SyncedStatus(result)]
  ELSE [tk EXCEPT !.pc = "add", !.found = result]

\* lines 96 and 123: getPlaylistTracks / getPlaylistVideoIds answers with the
\* membership of that moment, or throws
FetchMembership(t) ==
  /\ task[t].pc = "fetch"
  /\ LET tk == task[t]
         p  == CurPlatform(tk)
     IN /\ \/ task' = [task EXCEPT ![t] = [tk EXCEPT !.pc = "search", !.existing = playlist[p]]]
           \/ task' = [task EXCEPT ![t] = OnCallError(tk, ErrorMessage(p, "fetch"))]
        /\ called' = called \cup {p}
  /\ UNCHANGED <<store, registry, defaults, playlist, queue, integrations, loading,
                 syncing, alert, started, adds, last, rop, regStarted,
                 flagged, capture, lastRead, svc, clock, yt, srv, proc, led>>

\* lines 97 and 124: searchSong / searchYouTubeVideo answers or throws
SearchCatalog(t) ==
  /\ task[t].pc = "search"
  /\ LET tk == task[t]
         p  == CurPlatform(tk)
     IN \/ task' = [task EXCEPT ![t] = AfterSearch(tk, Catalog(p, CurSong(tk).title))]
        \/ task' = [task EXCEPT ![t] = OnCallError(tk, ErrorMessage(p, "search"))]
  /\ UNCHANGED <<store, registry, defaults, playlist, queue, integrations, loading,
                 syncing, alert, started, called, adds, last, rop, regStarted,
                 flagged, capture, lastRead, svc, clock, yt, srv, proc, led>>

\* addTracksToPlaylist / addVideoToPlaylist answers or throws
AddToPlaylist(t) ==
  /\ task[t].pc = "add"
  /\ LET tk == task[t]
         p  == CurPlatform(tk)
         tried == [tk EXCEPT !.addIssued = TRUE, !.added = @ \cup {p}]
     IN /\ \/ /\ task' = [task EXCEPT ![t] = [tried EXCEPT !.pc = "upd_read",
                                                           !.status = SyncedStatus(tk.found)]]
              /\ playlist' = [playlist EXCEPT ![p] = @ \cup {tk.found}]
           \/ /\ task' = [task EXCEPT ![t] = OnCallError(tried, ErrorMessage(p, "add"))]
              /\ UNCHANGED playlist
        /\ adds' = adds \cup {<<CurSong(tk).id, p>>}
  /\ UNCHANGED <<store, registry, defaults, queue, integrations, loading,
                 syncing, alert, started, called, last, rop, regStarted,
                 flagged, capture, lastRead, svc, clock, yt, srv, proc, led>>

(***************************************************************************)
(* songQueueService.updateSongSyncStatus (50-62): the read of the stored   *)
(* queue, then the write of the whole modified queue.                      *)
(***************************************************************************)
\* queue[songIndex].syncStatus[platform] = status
SetStatus(q, idx, p, status) == [q EXCEPT ![idx].syncStatus[p] = status]

UpdateRead(t) ==
  /\ task[t].pc = "upd_read"
  /\ LET tk  == task[t]
         q   == getSongQueue
         idx == FindIndex(q, CurSong(tk).id)
     IN task' = [task EXCEPT ![t] =
                   IF idx = 0 THEN Return(tk)
                   ELSE [tk EXCEPT !.pc = "upd_write",
                                   !.tq = SetStatus(q, idx, CurPlatform(tk), tk.status)]]
  /\ called' = called \cup {CurPlatform(task[t])}
  /\ UNCHANGED <<store, registry, defaults, playlist, queue, integrations, loading,
                 syncing, alert, started, adds, last, rop, regStarted,
                 flagged, capture, lastRead, svc, clock, yt, srv, proc, led>>

UpdateWrite(t) ==
  /\ task[t].pc = "upd_write"
  /\ store' = task[t].tq
  /\ task' = [task EXCEPT ![t] = Return(task[t])]
  /\ UNCHANGED <<registry, defaults, playlist, queue, integrations, loading,
                 syncing, alert, started, called, adds, last, rop, regStarted,
                 flagged, capture, lastRead, svc, clock, yt, srv, proc, led>>

(***************************************************************************)
(* QueueScreen: loadData (50-64), run on focus and on pull-to-refresh.     *)
(***************************************************************************)
LoadData ==
  /\ queue' = getSongQueue
  /\ integrations' = <<getIntegrations>>
  /\ loading' = FALSE
  /\ UNCHANGED <<store, registry, defaults, playlist, syncing, alert, task,
                 started, called, adds, last, rop, regStarted,
                 flagged, capture, lastRead, svc, clock, yt, srv, proc, led>>

(***************************************************************************)
(* QueueScreen: the two sync operations.  A press runs the handler of the  *)
(* current render, which closes over that render's queue, integrations and *)
(* syncing.                                                                *)
(***************************************************************************)
NewTask(kind, songs, platforms) ==
  [IdleTask EXCEPT !.kind = kind, !.songs = songs, !.platforms = platforms,
                   !.syncingSeen = syncing]

\* the "Sync All to Playlists" button (310-321): rendered for a non-empty
\* queue, disabled while syncing; syncAllSongs up to its first await
SyncAllPressed(budget) ==
  /\ ~loading
  /\ Len(queue) > 0
  /\ ~syncing
  /\ FreeSlot # 0
  /\ started < budget
  /\ LET platforms == getConnectedPlatforms(integrations)
     IN IF Len(platforms) = 0
          THEN /\ alert' = "no_integrations"
               /\ UNCHANGED <<syncing, task, started>>
          ELSE /\ syncing' = TRUE
               /\ task' = [task EXCEPT ![FreeSlot] = Enter(NewTask("all", queue, platforms))]
               /\ started' = started + 1
               /\ UNCHANGED alert
  /\ UNCHANGED <<store, registry, defaults, playlist, queue, integrations, loading,
                 called, adds, last, rop, regStarted,
                 flagged, capture, lastRead, svc, clock, yt, srv, proc, led>>

\* a press on the card of queue[i] (339-344), never disabled; syncSingleSong
\* up to its first await
SongPressed(i, budget) ==
  /\ ~loading
  /\ i \in 1..Len(queue)
  /\ FreeSlot # 0
  /\ started < budget
  /\ LET platforms == getConnectedPlatforms(integrations)
     IN IF Len(platforms) = 0
          THEN /\ alert' = "no_integrations"
               /\ UNCHANGED <<syncing, task, started>>
          ELSE /\ syncing' = TRUE
               /\ task' = [task EXCEPT ![FreeSlot] = Enter(NewTask("single", <<queue[i]>>, platforms))]
               /\ started' = started + 1
               /\ UNCHANGED alert
  /\ UNCHANGED <<store, registry, defaults, playlist, queue, integrations, loading,
                 called, adds, last, rop, regStarted,
                 flagged, capture, lastRead, svc, clock, yt, srv, proc, led>>

\* syncAllSongs 178-180: loadData, setSyncing(false), the completion alert
FinishAll(t) ==
  /\ task[t].pc = "load"
  /\ task[t].kind = "all"
  /\ queue' = getSongQueue
  /\ integrations' = <<getIntegrations>>
  /\ loading' = FALSE
  /\ syncing' = FALSE
  /\ alert' = "sync_complete"
  /\ task' = [task EXCEPT ![t] = IdleTask]
  /\ UNCHANGED <<store, registry, defaults, playlist, started, called, adds, last, rop, regStarted,
                 flagged, capture, lastRead, svc, clock, yt, srv, proc, led>>

\* syncSingleSong 196-197: loadData, setSyncing(false)
SingleFinished(t) ==
  /\ task[t].pc = "load"
  /\ task[t].kind = "single"
  /\ queue' = getSongQueue
  /\ integrations' = <<getIntegrations>>
  /\ loading' = FALSE
  /\ syncing' = FALSE
  /\ task' = [task EXCEPT ![t] = IdleTask]
  /\ UNCHANGED <<store, registry, defaults, playlist, alert, started, called, adds, rop, regStarted,
                 flagged, capture, lastRead, svc, clock, yt, srv, proc, led>>

PressSyncAll == SyncAllPressed(OverlapOps)

PressSong(i) == SongPressed(i, OverlapOps)

FinishSingle(t) == SingleFinished(t) /\ UNCHANGED last

(***************************************************************************)
(* Initial states.  The stored queue holds NumSongs songs that no sync has *)
(* touched; the first has title "ta", the others any title.  The playlists *)
(* are empty or already hold the tracks of "ta" (added by another client). *)
(* The registry is one the registry operations can produce.                *)
(***************************************************************************)
\* HomeScreen before any image is picked (605-610)
IdleCapture ==
  [pc |-> "idle", images |-> <<>>, i |-> 0, songsToAdd |-> <<>>, results |-> <<>>,
   answer |-> <<>>, detection |-> <<>>, error |-> None, fl |-> <<>>, updatedQueue |-> <<>>,
   newSongs |-> <<>>, nextId |-> NumSongs + 1]

\* no read has been made
NoRead == [op |-> None, failed |-> FALSE, threw |-> FALSE, value |-> <<>>]

\* songQueueService with no call in flight; <<>> stands for no song id
IdleCall == [pc |-> "idle", songId |-> <<>>, platform |-> None, queue |-> <<>>,
             newSongs |-> <<>>, outcome |-> None]

IdleSvc == [append |-> IdleCall, status |-> IdleCall, remove |-> IdleCall, calls |-> 0]

\* youtubeAuthService with no call in flight; tok is the YouTubeTokens value
\* the call holds, after = the call was started with the tokens cleared
IdleYtCall == [pc |-> "idle", kind |-> None, tok |-> <<>>, after |-> FALSE, outcome |-> None]

\* nothing stored under @youtube_tokens, no call in flight, no probe result
IdleYt == [tokens |-> <<>>, call |-> IdleYtCall, cleared |-> FALSE, stored |-> None, ops |-> 0]

\* the requests the server handles at a time
SrvReqs == {1, 2}

\* no request in this slot
IdleReq == [pc |-> "idle", token |-> 0, fromCache |-> FALSE, sentAt |-> 0, expiresAt |-> 0]

\* the server after start: cachedAccessToken = null, tokenExpiresAt = 0
IdleSrv ==
  [cached |-> <<>>, now |-> 0, conn |-> 1, req |-> [r \in SrvReqs |-> IdleReq],
   dirty |-> FALSE, started |-> 0]

\* no processImages run
IdleProc ==
  [pc |-> "idle", images |-> <<>>, i |-> 0, existing |-> {}, real |-> {}, det |-> <<>>,
   j |-> 0, processed |-> <<>>, tracksToAdd |-> <<>>, results |-> <<>>, pending |-> <<>>,
   error |-> None, fl |-> <<>>]

\* no call of the flagged-image ledger in flight
IdleLed ==
  [add    |-> [pc |-> "idle", list |-> <<>>],
   remove |-> [pc |-> "idle", list |-> <<>>, id |-> 0, key |-> 0],
   count  |-> 0]

IdleRop == [pc |-> "idle", platform |-> None, updates |-> <<>>, snap |-> <<>>]

RegOps == {"call", "spotifyProbe", "youtubeProbe"}

ConfiguredRecord(d) ==
  [d EXCEPT !.connected = TRUE, !.selectedPlaylistId = "P1", !.selectedPlaylistName = "Mix"]

RegistryBoth ==
  [p \in Platforms |->
     IF p \in {"spotify", "youtube", "apple_music"}
       THEN ConfiguredRecord(DEFAULT_INTEGRATIONS[p])
       ELSE DEFAULT_INTEGRATIONS[p]]

RegistrySpotifyOnly ==
  [p \in Platforms |->
     IF p = "spotify" THEN ConfiguredRecord(DEFAULT_INTEGRATIONS[p])
     ELSE IF p = "youtube" THEN [DEFAULT_INTEGRATIONS[p] EXCEPT !.connected = TRUE]
     ELSE DEFAULT_INTEGRATIONS[p]]

InitialRegistries == {<<>>, <<RegistryBoth>>, <<RegistrySpotifyOnly>>}

InitialPlaylists ==
  {[p \in SyncPlatforms |-> {}],
   [p \in SyncPlatforms |-> {Catalog(p, "ta")}]}

InitialQueues ==
  {q \in [SongIds -> [id : SongIds, title : Titles, syncStatus : {[p \in Platforms |-> NoStatus]}]] :
     /\ \A i \in SongIds : q[i].id = i
     /\ q[1].title = "ta"}

Init ==
  /\ store \in InitialQueues
  /\ registry \in InitialRegistries
  /\ defaults = DEFAULT_INTEGRATIONS
  /\ playlist \in InitialPlaylists
  /\ queue = <<>>
  /\ integrations = <<>>
  /\ loading = TRUE
  /\ syncing = FALSE
  /\ alert = None
  /\ task = [t \in Tasks |-> IdleTask]
  /\ started = 0
  /\ called = {}
  /\ adds = {}
  /\ last = [s \in SongIds |-> [p \in SyncPlatforms |-> [seen |-> 0, ok |-> FALSE, adds |-> 0]]]
  /\ rop = [o \in RegOps |-> IdleRop]
  /\ regStarted = 0
  /\ flagged = <<>>
  /\ capture = IdleCapture
  /\ lastRead = NoRead
  /\ svc = IdleSvc
  /\ clock = NumSongs
  /\ yt = IdleYt
  /\ srv = IdleSrv
  /\ proc = IdleProc
  /\ led = IdleLed

Next ==
  \/ LoadData
  \/ PressSyncAll
  \/ \E i \in SongIds : PressSong(i)
  \/ \E t \in Tasks : FetchMembership(t)
  \/ \E t \in Tasks : SearchCatalog(t)
  \/ \E t \in Tasks : AddToPlaylist(t)
  \/ \E t \in Tasks : UpdateRead(t)
  \/ \E t \in Tasks : UpdateWrite(t)
  \/ \E t \in Tasks : FinishAll(t)
  \/ \E t \in Tasks : FinishSingle(t)

Spec == Init /\ [][Next]_vars

(***************************************************************************)
(* The sync operations run one at a time: an operation is started only     *)
(* when none is in flight.  `last` records, per song and platform, how     *)
(* many syncSingleSong operations have completed with the platform active, *)
(* whether the stored status was synced when the latest one completed and  *)
(* how many add calls that one issued.                                     *)
(***************************************************************************)
AllIdle == \A t \in Tasks : task[t].pc = "idle"

IsActive(tk, p) == \E i \in 1..Len(tk.platforms) : tk.platforms[i] = p

SeqPressSyncAll == AllIdle /\ SyncAllPressed(MaxSeqOps)

SeqPressSong(i) == AllIdle /\ SongPressed(i, MaxSeqOps)

SeqFinishSingle(t) ==
  /\ SingleFinished(t)
  /\ last' = [s \in SongIds |-> [p \in SyncPlatforms |->
                IF s = task[t].songs[1].id /\ IsActive(task[t], p)
                  THEN [seen |-> IF last[s][p].seen < 2 THEN last[s][p].seen + 1 ELSE 2,
                        ok   |-> StatusOf(store, s, p).synced,
                        adds |-> IF p \in task[t].added THEN 1 ELSE 0]
                  ELSE last[s][p]]]

SeqNext ==
  \/ LoadData
  \/ SeqPressSyncAll
  \/ \E i \in SongIds : SeqPressSong(i)
  \/ \E t \in Tasks : FetchMembership(t)
  \/ \E t \in Tasks : SearchCatalog(t)
  \/ \E t \in Tasks : AddToPlaylist(t)
  \/ \E t \in Tasks : UpdateRead(t)
  \/ \E t \in Tasks : UpdateWrite(t)
  \/ \E t \in Tasks : FinishAll(t)
  \/ \E t \in Tasks : SeqFinishSingle(t)

SpecSeq == Init /\ [][SeqNext]_vars

(***************************************************************************)
(* Claims about the sync operations.                                       *)
(***************************************************************************)
AtStatusWrite(tk) == tk.pc \in {"upd_read", "upd_write"}

\* C1 (No-downgrade): once the stored status of a song on a platform is
\* synced, no later write to the stored queue makes it not synced.
C1_NoDowngrade ==
  [][\A s \in SongIds : \A p \in SyncPlatforms :
       StatusOf(store, s, p).synced => StatusOf(store', s, p).synced]_vars

\* C2 (Dedup within one reconciliation): when the membership fetched by an
\* invocation of syncSongToPlatform holds the id its search returned, the
\* invocation never reaches the add call, the status it hands to
\* updateSongSyncStatus is {synced: true, remoteId}, and the write stores it.
DedupCase(tk) ==
  /\ ~tk.callFailed
  /\ Catalog(CurPlatform(tk), CurSong(tk).title) # None
  /\ Catalog(CurPlatform(tk), CurSong(tk).title) \in tk.existing

C2_DedupNoAdd ==
  /\ [](\A t \in Tasks :
          /\ task[t].pc = "add" => task[t].found \notin task[t].existing
          /\ (AtStatusWrite(task[t]) /\ DedupCase(task[t])) =>
               /\ ~task[t].addIssued
               /\ task[t].status = SyncedStatus(Catalog(CurPlatform(task[t]), CurSong(task[t]).title)))
  /\ [][\A t \in Tasks :
          (UpdateWrite(t) /\ DedupCase(task[t])) =>
             StatusOf(store', CurSong(task[t]).id, CurPlatform(task[t]))
               = SyncedStatus(Catalog(CurPlatform(task[t]), CurSong(task[t]).title))]_vars

\* a song is stored as synced on Spotify or YouTube although no add call
\* was ever issued for it there
C2_Witness ==
  \E s \in SongIds : \E p \in SyncPlatforms :
    /\ StatusOf(store, s, p).synced
    /\ StatusOf(store, s, p).remoteId \in playlist[p]
    /\ \A o \in SongIds : <<o, p>> \notin adds

\* C3 (No duplicate add): an add call is never issued for a remote id that
\* is a member of the target playlist at the moment the call is issued.
C3_NoDuplicateAdd ==
  [][\A t \in Tasks :
       (task[t].pc = "add" /\ task'[t].pc # "add") =>
          task[t].found \notin playlist[CurPlatform(task[t])]]_vars

\* C5 (Partial-batch failure isolation): when syncAllSongs completes, every
\* song of its queue that is still stored carries, for each active platform,
\* the outcome of its reconciliation: synced, or an error.
C5_BatchReachesEverySong ==
  [][\A t \in Tasks :
       FinishAll(t) =>
         \A i \in 1..Len(task[t].songs) : \A p \in SyncPlatforms :
           (IsActive(task[t], p) /\ FindIndex(store, task[t].songs[i].id) # 0) =>
              StatusOf(store', task[t].songs[i].id, p) # NoStatus]_vars

\* C6 (Failures are data): a failed membership fetch, search or add never
\* ends the invocation with an exception; the status handed to
\* updateSongSyncStatus is {synced: false, error: <message>}, the write
\* stores it for that song and platform, and the invocation returns to its loop.
C6_FailuresAreData ==
  /\ [](\A t \in Tasks :
          /\ task[t].pc # "threw"
          /\ (AtStatusWrite(task[t]) /\ task[t].callFailed) =>
               task[t].status = FailedStatus(ErrorMessage(CurPlatform(task[t]), "call")))
  /\ [][\A t \in Tasks :
          (UpdateWrite(t) /\ task[t].callFailed) =>
             /\ StatusOf(store', CurSong(task[t]).id, CurPlatform(task[t]))
                  = FailedStatus(ErrorMessage(CurPlatform(task[t]), "call"))
             /\ task'[t].pc \in {"fetch", "load"}]_vars

\* a song stored with the error of a failed call
C6_Witness ==
  \E s \in SongIds : \E p \in SyncPlatforms :
    StatusOf(store, s, p) = FailedStatus(ErrorMessage(p, "call"))

\* C7 (Not found): when the catalog has no match for the song, the
\* invocation never reaches the add call, hands {synced: false, error:
\* <not-found message>} to updateSongSyncStatus, and the write stores it.
NotFoundCase(tk) ==
  /\ ~tk.callFailed
  /\ Catalog(CurPlatform(tk), CurSong(tk).title) = None

C7_NotFound ==
  /\ [](\A t \in Tasks :
          /\ task[t].pc = "add" => task[t].found # None
          /\ (AtStatusWrite(task[t]) /\ NotFoundCase(task[t])) =>
               /\ ~task[t].addIssued
               /\ task[t].status = FailedStatus(NotFoundMessage(CurPlatform(task[t]))))
  /\ [][\A t \in Tasks :
          (UpdateWrite(t) /\ NotFoundCase(task[t])) =>
             StatusOf(store', CurSong(task[t]).id, CurPlatform(task[t]))
               = FailedStatus(NotFoundMessage(CurPlatform(task[t])))]_vars

\* a song stored as not found, for which no add call was issued
C7_Witness ==
  \E s \in SongIds : \E p \in SyncPlatforms :
    /\ StatusOf(store, s, p) = FailedStatus(NotFoundMessage(p))
    /\ <<s, p>> \notin adds

\* C8 (Unavailable-platform exclusion): for a platform whose integration
\* record has available = false, no catalog call or status write is issued,
\* no reconciliation is in flight and no song carries a status.
C8_UnavailableExcluded ==
  \A p \in Platforms :
    ~getIntegrations[p].available =>
      /\ p \notin called
      /\ \A s \in SongIds : StatusOf(store, s, p) = NoStatus
      /\ \A t \in Tasks : InFlight(t) /\ task[t].pc # "load" => CurPlatform(task[t]) # p

\* an unavailable platform is stored as connected with a selected playlist,
\* and a sync operation has stored a status for another platform
C8_Witness ==
  /\ \E p \in Platforms :
       ~getIntegrations[p].available /\ Configured(getIntegrations, p)
  /\ \E s \in SongIds : \E p \in SyncPlatforms : StatusOf(store, s, p) # NoStatus

(***************************************************************************)
(* Claims about sync operations run one after the other.                   *)
(***************************************************************************)
\* C4 (Idempotence): when syncSingleSong completes for a song whose previous
\* syncSingleSong left a platform synced, the stored status of that platform
\* is still synced and the two operations issued at most one add call for it.
C4_Idempotent ==
  [][\A t \in Tasks :
       SeqFinishSingle(t) =>
         \A p \in SyncPlatforms :
           (IsActive(task[t], p) /\ last[task[t].songs[1].id][p].ok) =>
              /\ StatusOf(store', task[t].songs[1].id, p).synced
              /\ last[task[t].songs[1].id][p].adds
                   + (IF p \in task[t].added THEN 1 ELSE 0) <= 1]_vars

\* a song was reconciled twice in a row, the first time with an add call
C4_Witness ==
  \E s \in SongIds : \E p \in SyncPlatforms :
    /\ last[s][p].seen = 2
    /\ last[s][p].ok
    /\ <<s, p>> \in adds

(***************************************************************************)
(* integrationsService: the registry operations.  updateIntegration        *)
(* (72-79) reads the registry, merges the updates into the platform's      *)
(* record and writes the whole state back.  When nothing is stored,        *)
(* getIntegrations returns the DEFAULT_INTEGRATIONS object itself, so the  *)
(* assignment of line 77 changes that object.                              *)
(***************************************************************************)
\* { ...integrations[platform], ...updates }
Merge(rec, updates) ==
  [f \in DOMAIN rec |-> IF f \in DOMAIN updates THEN updates[f] ELSE rec[f]]

\* the platforms the registry operations are called for
CallPlatforms == {"spotify", "youtube", "apple_music"}

PlaylistIds == {"P1"}

\* updateIntegration(platform, updates), called directly
UpdateInputs == {[connected |-> TRUE], [connected |-> FALSE]}

\* setSelectedPlaylist (150-159)
SelectionUpdates(id) == [selectedPlaylistId |-> id, selectedPlaylistName |-> "Mix"]

\* disconnectIntegration (161-168)
DisconnectUpdates ==
  [connected |-> FALSE, selectedPlaylistId |-> None, selectedPlaylistName |-> None,
   error |-> None]

\* checkSpotifyConnection (81-101): the updates of its three outcomes
SpotifyProbeUpdatesKeepError ==
  {[connected |-> TRUE],
   [connected |-> FALSE, error |-> "Spotify not connected"]}

SpotifyProbeUpdates ==
  {[connected |-> TRUE, error |-> None],
   [connected |-> FALSE, error |-> "Spotify not connected"]}

\* checkYouTubeConnection (103-139): the updates of its outcomes
YouTubeProbeUpdates ==
  {[connected |-> FALSE, error |-> "YouTube not configured"],
   [connected |-> FALSE, error |-> None],
   [connected |-> TRUE, error |-> None],
   [connected |-> FALSE, error |-> "Connection failed"]}

BeginUpdate(o, p, updates) ==
  /\ rop[o].pc = "idle"
  /\ regStarted < MaxRegOps
  /\ regStarted' = regStarted + 1
  /\ rop' = [rop EXCEPT ![o] = [pc |-> "read", platform |-> p, updates |-> updates, snap |-> <<>>]]
  /\ UNCHANGED <<store, registry, defaults, playlist, queue, integrations, loading,
                 syncing, alert, task, started, called, adds, last,
                 flagged, capture, lastRead, svc, clock, yt, srv, proc, led>>

CallUpdate(p, updates) == BeginUpdate("call", p, updates)

CallSetSelectedPlaylist(p, id) == BeginUpdate("call", p, SelectionUpdates(id))

CallDisconnect(p) == BeginUpdate("call", p, DisconnectUpdates)

\* refreshAllConnections (141-145): both probes are started
StartRefresh ==
  /\ rop["spotifyProbe"].pc = "idle"
  /\ rop["youtubeProbe"].pc = "idle"
  /\ regStarted < MaxRegOps
  /\ regStarted' = regStarted + 1
  /\ rop' = [rop EXCEPT !["spotifyProbe"] = [IdleRop EXCEPT !.pc = "probe", !.platform = "spotify"],
                        !["youtubeProbe"] = [IdleRop EXCEPT !.pc = "probe", !.platform = "youtube"]]
  /\ UNCHANGED <<store, registry, defaults, playlist, queue, integrations, loading,
                 syncing, alert, task, started, called, adds, last,
                 flagged, capture, lastRead, svc, clock, yt, srv, proc, led>>

\* a probe's network call answers; the probe calls updateIntegration
ProbeAnswer(o) ==
  /\ o \in {"spotifyProbe", "youtubeProbe"}
  /\ rop[o].pc = "probe"
  /\ \E u \in (IF o = "spotifyProbe" THEN SpotifyProbeUpdates ELSE YouTubeProbeUpdates) :
       rop' = [rop EXCEPT ![o].pc = "read", ![o].updates = u]
  /\ UNCHANGED <<store, registry, defaults, playlist, queue, integrations, loading,
                 syncing, alert, task, started, called, adds, last, regStarted,
                 flagged, capture, lastRead, svc, clock, yt, srv, proc, led>>

\* updateIntegration 76-77: getIntegrations answers, the record is merged
RegistryRead(o) ==
  /\ rop[o].pc = "read"
  /\ LET integ  == getIntegrations
         merged == [integ EXCEPT ![rop[o].platform] = Merge(integ[rop[o].platform], rop[o].updates)]
     IN /\ rop' = [rop EXCEPT ![o].pc = "write", ![o].snap = <<merged>>]
        /\ defaults' = IF registry = <<>> THEN merged ELSE defaults
  /\ UNCHANGED <<store, registry, playlist, queue, integrations, loading,
                 syncing, alert, task, started, called, adds, last, regStarted,
                 flagged, capture, lastRead, svc, clock, yt, srv, proc, led>>

\* updateIntegration 78: setItem completes
RegistryWrite(o) ==
  /\ rop[o].pc = "write"
  /\ registry' = rop[o].snap
  /\ rop' = [rop EXCEPT ![o] = IF o = "call" THEN IdleRop
                                ELSE [rop[o] EXCEPT !.pc = "done", !.snap = <<>>]]
  /\ UNCHANGED <<store, defaults, playlist, queue, integrations, loading,
                 syncing, alert, task, started, called, adds, last, regStarted,
                 flagged, capture, lastRead, svc, clock, yt, srv, proc, led>>

\* refreshAllConnections 142-147: both probes have settled; getIntegrations
RefreshReturn ==
  /\ rop["spotifyProbe"].pc = "done"
  /\ rop["youtubeProbe"].pc = "done"
  /\ rop' = [rop EXCEPT !["spotifyProbe"] = IdleRop, !["youtubeProbe"] = IdleRop]
  /\ UNCHANGED <<store, registry, defaults, playlist, queue, integrations, loading,
                 syncing, alert, task, started, called, adds, last, regStarted,
                 flagged, capture, lastRead, svc, clock, yt, srv, proc, led>>

InitRegistry ==
  /\ store = <<>>
  /\ registry = <<>>
  /\ defaults = DEFAULT_INTEGRATIONS
  /\ playlist = [p \in SyncPlatforms |-> {}]
  /\ queue = <<>>
  /\ integrations = <<>>
  /\ loading = TRUE
  /\ syncing = FALSE
  /\ alert = None
  /\ task = [t \in Tasks |-> IdleTask]
  /\ started = 0
  /\ called = {}
  /\ adds = {}
  /\ last = [s \in SongIds |-> [p \in SyncPlatforms |-> [seen |-> 0, ok |-> FALSE, adds |-> 0]]]
  /\ rop = [o \in RegOps |-> IdleRop]
  /\ regStarted = 0
  /\ flagged = <<>>
  /\ capture = IdleCapture
  /\ lastRead = NoRead
  /\ svc = IdleSvc
  /\ clock = NumSongs
  /\ yt = IdleYt
  /\ srv = IdleSrv
  /\ proc = IdleProc
  /\ led = IdleLed

NextRegistry ==
  \/ \E p \in CallPlatforms : \E u \in UpdateInputs : CallUpdate(p, u)
  \/ \E p \in CallPlatforms : \E id \in PlaylistIds : CallSetSelectedPlaylist(p, id)
  \/ \E p \in CallPlatforms : CallDisconnect(p)
  \/ StartRefresh
  \/ \E o \in RegOps : ProbeAnswer(o)
  \/ \E o \in RegOps : RegistryRead(o)
  \/ \E o \in RegOps : RegistryWrite(o)
  \/ RefreshReturn

SpecRegistry == InitRegistry /\ [][NextRegistry]_vars

DisconnectYouTube == CallDisconnect("youtube")

NextTabs ==
  \/ LoadData
  \/ SeqPressSyncAll
  \/ \E i \in SongIds : SeqPressSong(i)
  \/ \E t \in Tasks : FetchMembership(t)
  \/ \E t \in Tasks : SearchCatalog(t)
  \/ \E t \in Tasks : AddToPlaylist(t)
  \/ \E t \in Tasks : UpdateRead(t)
  \/ \E t \in Tasks : UpdateWrite(t)
  \/ \E t \in Tasks : FinishAll(t)
  \/ \E t \in Tasks : SeqFinishSingle(t)
  \/ DisconnectYouTube
  \/ RegistryRead("call")
  \/ RegistryWrite("call")

SpecTabs == Init /\ [][NextTabs]_vars

\* C10 (Not configured): while the stored record of a platform is not
\* connected or has no selected playlist, no membership fetch, search, add
\* call or status write is made for it; and while no platform is configured,
\* a press starts no sync operation.
C10_NotConfiguredNoWork ==
  [][/\ \A t \in Tasks :
          (/\ task[t].pc \in {"fetch", "search", "add", "upd_read", "upd_write"}
           /\ task'[t] # task[t])
            => Configured(getIntegrations, CurPlatform(task[t]))
     /\ (\A p \in SyncPlatforms : ~Configured(getIntegrations, p)) =>
          \A t \in Tasks : task[t].pc = "idle" => task'[t].pc = "idle"]_vars

(***************************************************************************)
(* Claims about overlapping sync operations.                               *)
(***************************************************************************)
\* the invocation of syncSongToPlatform in slot t is suspended at an await
Reconciling(t) == task[t].pc \in {"fetch", "search", "add", "upd_read", "upd_write"}

\* C11: no two reconciliations of the same (song, platform) pair are in
\* flight at the same time.
C11_OnePerPair ==
  \A t \in Tasks : \A u \in Tasks :
    (t # u /\ Reconciling(t) /\ Reconciling(u)) =>
       <<CurSong(task[t]).id, CurPlatform(task[t])>> # <<CurSong(task[u]).id, CurPlatform(task[u])>>

(***************************************************************************)
(* Detection.  POST /api/detect-songs (server/index.ts 262-357) parses the *)
(* classifier's answer and filters its song list; detectSongsFromImage     *)
(* (the client, 396-427) never throws: every failure becomes a result with *)
(* success = false.                                                        *)
(***************************************************************************)
\* an entry of the classifier's song list; "medium" passes the filter of
\* line 340 exactly as "high" does and is not told apart here
RawEntries == [title : Titles \cup {None}, artist : {"x", None}, confidence : {"high", "low"}]

RECURSIVE SeqsUpTo(_, _)
SeqsUpTo(S, n) ==
  IF n = 0 THEN {<<>>}
  ELSE LET shorter == SeqsUpTo(S, n - 1)
       IN shorter \cup {Append(q, x) : q \in {r \in shorter : Len(r) = n - 1}, x \in S}

\* what the classifier may answer: { songs, error }
ParsedAnswers == [songs : SeqsUpTo(RawEntries, MaxDetected), error : {None, "unreadable"}]

\* line 339-341: song.title && song.artist && song.confidence !== 'low'
ValidSongAnyConfidence(song) == song.title # None /\ song.artist # None

ValidSong(song) == song.title # None /\ song.artist # None /\ song.confidence # "low"

\* lines 328-347: the response to a classifier answer that parsed
DetectionResponse(parsed) ==
  IF parsed.error # None /\ Len(parsed.songs) = 0
    THEN [success |-> FALSE, songs |-> <<>>, error |-> parsed.error]
  ELSE LET validSongs == SelectSeq(parsed.songs, ValidSong)
       IN [success |-> Len(validSongs) > 0, songs |-> validSongs, error |-> None]

\* lines 319-326: the classifier returned no content
NoContentResponse == [success |-> FALSE, songs |-> <<>>, error |-> "No response from AI"]

\* client 408-415 and 419-426: a response that is not ok, or a failed fetch
TransportFailure == [success |-> FALSE, songs |-> <<>>, error |-> "API error"]

\* every result detectSongsFromImage can return
DetectionResults ==
  {DetectionResponse(parsed) : parsed \in ParsedAnswers} \cup {NoContentResponse, TransportFailure}

(***************************************************************************)
(* HomeScreen.startProcessing (642-706), one action per await.  A capture  *)
(* session runs from the selection of the images to resetApp.              *)
(***************************************************************************)
\* the image uris the picker can return
Images == 1..NumImages

\* lines 670-676: the staged songs of one image
RECURSIVE Staged(_, _)
Staged(songs, imageUri) ==
  IF Len(songs) = 0 THEN <<>>
  ELSE <<[title |-> Head(songs).title, artist |-> Head(songs).artist, sourceImageUri |-> imageUri]>>
       \o Staged(Tail(songs), imageUri)

\* the loop of line 653 moves to the next image, or to lines 698-705
NextImageFlushEach(c) ==
  IF Len(c.songsToAdd) > 0 THEN [c EXCEPT !.pc = "add_read"]
  ELSE IF c.i < Len(c.images) THEN [c EXCEPT !.pc = "detect", !.i = c.i + 1]
  ELSE [c EXCEPT !.pc = "complete"]

NextImage(c) ==
  IF c.i < Len(c.images) THEN [c EXCEPT !.pc = "detect", !.i = c.i + 1]
  ELSE IF Len(c.songsToAdd) > 0 THEN [c EXCEPT !.pc = "add_read"]
  ELSE [c EXCEPT !.pc = "complete"]

\* lines 664-685: what follows the result of detectSongsFromImage
AfterDetectionFlagsNothing(c, det) ==
  LET imageUri == c.images[c.i]
      seen     == [c EXCEPT !.detection = <<det>>]
  IN IF det.success /\ Len(det.songs) > 0
       THEN NextImage([seen EXCEPT
              !.results = Append(@, [imageUri |-> imageUri, songs |-> det.songs, error |-> None]),
              !.songsToAdd = @ \o Staged(det.songs, imageUri)])
     ELSE NextImage([seen EXCEPT
              !.results = Append(@, [imageUri |-> imageUri, songs |-> <<>>, error |-> "No songs detected"])])

AfterDetection(c, det) ==
  LET imageUri == c.images[c.i]
      seen     == [c EXCEPT !.detection = <<det>>]
      message  == IF det.error # None THEN det.error ELSE "No songs detected"
  IN IF det.success /\ Len(det.songs) > 0
       THEN NextImage([seen EXCEPT
              !.results = Append(@, [imageUri |-> imageUri, songs |-> det.songs, error |-> None]),
              !.songsToAdd = @ \o Staged(det.songs, imageUri)])
     ELSE [seen EXCEPT
              !.pc = "flag_read",
              !.results = Append(@, [imageUri |-> imageUri, songs |-> <<>>, error |-> message]),
              !.error = message]

\* lines 642-651: the "process" button on a non-empty selection
StartProcessing ==
  /\ capture.pc = "selecting"
  /\ Len(capture.images) > 0
  /\ capture' = [capture EXCEPT !.pc = "detect", !.i = 1, !.songsToAdd = <<>>, !.results = <<>>]
  /\ UNCHANGED <<store, registry, defaults, playlist, queue, integrations, loading,
                 syncing, alert, task, started, called, adds, last, rop, regStarted,
                 flagged, lastRead, svc, clock, yt, srv, proc, led>>

\* line 662: detectSongsFromImage returns
Detect ==
  /\ capture.pc = "detect"
  /\ \E det \in DetectionResults : capture' = AfterDetection(capture, det)
  /\ UNCHANGED <<store, registry, defaults, playlist, queue, integrations, loading,
                 syncing, alert, task, started, called, adds, last, rop, regStarted,
                 flagged, lastRead, svc, clock, yt, srv, proc, led>>

\* addFlaggedImage 236-242: getFlaggedImages answers, the record is pushed
FlagRead ==
  /\ capture.pc = "flag_read"
  /\ capture' = [capture EXCEPT
       !.pc = "flag_write",
       !.fl = Append(flagged, [imageUri |-> capture.images[capture.i], error |-> capture.error])]
  /\ UNCHANGED <<store, registry, defaults, playlist, queue, integrations, loading,
                 syncing, alert, task, started, called, adds, last, rop, regStarted,
                 flagged, lastRead, svc, clock, yt, srv, proc, led>>

\* addFlaggedImage 243: setItem completes; the loop goes on
FlagWrite ==
  /\ capture.pc = "flag_write"
  /\ flagged' = capture.fl
  /\ capture' = NextImage([capture EXCEPT !.fl = <<>>, !.error = None])
  /\ UNCHANGED <<store, registry, defaults, playlist, queue, integrations, loading,
                 syncing, alert, task, started, called, adds, last, rop, regStarted,
                 lastRead, svc, clock, yt, srv, proc, led>>

(***************************************************************************)
(* songQueueService.addSongsToQueue (34-48): the read of the stored queue, *)
(* then the write of the queue with the new songs appended.                *)
(***************************************************************************)
\* lines 37-42: the new QueuedSong records, with fresh ids
RECURSIVE NewSongs(_, _)
NewSongs(songs, firstId) ==
  IF Len(songs) = 0 THEN <<>>
  ELSE <<[id |-> firstId, title |-> Head(songs).title, artist |-> Head(songs).artist,
          sourceImageUri |-> Head(songs).sourceImageUri,
          syncStatus |-> [p \in Platforms |-> NoStatus]]>>
       \o NewSongs(Tail(songs), firstId + 1)

\* lines 35-44: getSongQueue answers; updatedQueue = [...queue, ...newSongs]
AddRead ==
  /\ capture.pc = "add_read"
  /\ LET newSongs == NewSongs(capture.songsToAdd, capture.nextId)
     IN capture' = [capture EXCEPT !.pc = "add_write", !.newSongs = newSongs,
                                   !.updatedQueue = getSongQueue \o newSongs,
                                   !.nextId = @ + Len(newSongs)]
  /\ UNCHANGED <<store, registry, defaults, playlist, queue, integrations, loading,
                 syncing, alert, task, started, called, adds, last, rop, regStarted,
                 flagged, lastRead, svc, clock, yt, srv, proc, led>>

\* line 45: setItem completes; startProcessing 702-705
AddWrite ==
  /\ capture.pc = "add_write"
  /\ store' = capture.updatedQueue
  /\ capture' = [capture EXCEPT !.pc = "complete", !.updatedQueue = <<>>]
  /\ UNCHANGED <<registry, defaults, playlist, queue, integrations, loading,
                 syncing, alert, task, started, called, adds, last, rop, regStarted,
                 flagged, lastRead, svc, clock, yt, srv, proc, led>>

\* resetApp (708-714)
ResetApp ==
  /\ capture.pc = "complete"
  /\ capture' = [IdleCapture EXCEPT !.nextId = capture.nextId]
  /\ UNCHANGED <<store, registry, defaults, playlist, queue, integrations, loading,
                 syncing, alert, task, started, called, adds, last, rop, regStarted,
                 flagged, lastRead, svc, clock, yt, srv, proc, led>>

\* HomeScreen after pickImages (628-631): n images selected
Selecting(n) == [IdleCapture EXCEPT !.pc = "selecting", !.images = [k \in 1..n |-> k]]

InitCapture ==
  /\ store \in InitialQueues
  /\ registry = <<>>
  /\ defaults = DEFAULT_INTEGRATIONS
  /\ playlist = [p \in SyncPlatforms |-> {}]
  /\ queue = <<>>
  /\ integrations = <<>>
  /\ loading = TRUE
  /\ syncing = FALSE
  /\ alert = None
  /\ task = [t \in Tasks |-> IdleTask]
  /\ started = 0
  /\ called = {}
  /\ adds = {}
  /\ last = [s \in SongIds |-> [p \in SyncPlatforms |-> [seen |-> 0, ok |-> FALSE, adds |-> 0]]]
  /\ rop = [o \in RegOps |-> IdleRop]
  /\ regStarted = 0
  /\ flagged = <<>>
  /\ \E n \in Images : capture = Selecting(n)
  /\ lastRead = NoRead
  /\ svc = IdleSvc
  /\ clock = NumSongs
  /\ yt = IdleYt
  /\ srv = IdleSrv
  /\ proc = IdleProc
  /\ led = IdleLed

NextCapture ==
  \/ StartProcessing
  \/ Detect
  \/ FlagRead
  \/ FlagWrite
  \/ AddRead
  \/ AddWrite
  \/ ResetApp

SpecCapture == InitCapture /\ [][NextCapture]_vars

(***************************************************************************)
(* The Queue tab with a capture session of the Home tab.  The session's    *)
(* steps up to line 700 do not touch the stored queue, so they are taken   *)
(* as one step: one image, in which one song was detected.  The sync       *)
(* operations are single-song operations, started one at a time.           *)
(***************************************************************************)
\* pickImages, startProcessing and the detection of the image's one song
CaptureStaged ==
  /\ capture.pc = "idle"
  /\ capture' = AfterDetection(
                    [Selecting(1) EXCEPT !.pc = "detect", !.i = 1, !.nextId = capture.nextId],
                    DetectionResponse([songs |-> <<[title |-> "tb", artist |-> "x",
                                                    confidence |-> "high"]>>,
                                       error |-> None]))
  /\ UNCHANGED <<store, registry, defaults, playlist, queue, integrations, loading,
                 syncing, alert, task, started, called, adds, last, rop, regStarted,
                 flagged, lastRead, svc, clock, yt, srv, proc, led>>

NextIntake ==
  \/ LoadData
  \/ \E i \in SongIds : SeqPressSong(i)
  \/ \E t \in Tasks : FetchMembership(t)
  \/ \E t \in Tasks : SearchCatalog(t)
  \/ \E t \in Tasks : AddToPlaylist(t)
  \/ \E t \in Tasks : UpdateRead(t)
  \/ \E t \in Tasks : UpdateWrite(t)
  \/ \E t \in Tasks : SeqFinishSingle(t)
  \/ CaptureStaged
  \/ AddRead
  \/ AddWrite

SpecIntake == Init /\ [][NextIntake]_vars

\* the ids of the songs of a queue
IdsOf(q) == {q[i].id : i \in 1..Len(q)}

\* C12 (Sync never removes a song): a status write of a sync operation
\* leaves the set of song ids of the stored queue as it was, also when
\* addSongsToQueue has appended songs since the status write read the queue.
C12_SyncKeepsSongs ==
  [][\A t \in Tasks : UpdateWrite(t) => IdsOf(store') = IdsOf(store)]_vars

(***************************************************************************)
(* Claims about a capture session.                                         *)
(***************************************************************************)
\* the FlaggedImage records stored for an image
FlagCount(imageUri) == Cardinality({j \in 1..Len(flagged) : flagged[j].imageUri = imageUri})

\* QueuedSong.sourceImageUri; 0 when absent, as for the songs of the initial queue
SourceOf(song) == IF "sourceImageUri" \in DOMAIN song THEN song.sourceImageUri ELSE 0

\* the stored or staged songs that originate from an image
FromImage(imageUri) ==
  {j \in 1..Len(store) : SourceOf(store[j]) = imageUri}
    \cup {j \in 1..Len(capture.songsToAdd) : capture.songsToAdd[j].sourceImageUri = imageUri}

\* every selected image has been processed
AllProcessed == capture.pc \in {"add_read", "add_write", "complete"}

\* C13 (Flagging invariant): an image whose detection returned an error or
\* no song gets exactly one FlaggedImage once the session has processed
\* every image (never more than one before), and no song staged or stored
\* originates from it; an image with at least one detected song gets none.
\* The step that receives a failed detection stages nothing and goes on to
\* flag the image.
C13_FlaggingInvariant ==
  /\ [](\A k \in 1..Len(capture.results) :
          LET r == capture.results[k]
          IN IF Len(r.songs) = 0
               THEN /\ FlagCount(r.imageUri) <= 1
                    /\ AllProcessed => FlagCount(r.imageUri) = 1
                    /\ FromImage(r.imageUri) = {}
               ELSE FlagCount(r.imageUri) = 0)
  /\ [][Detect =>
          LET det == capture'.detection[1]
          IN IF det.success /\ Len(det.songs) > 0
               THEN /\ capture'.pc # "flag_read"
                    /\ Len(capture'.songsToAdd) = Len(capture.songsToAdd) + Len(det.songs)
               ELSE /\ capture'.pc = "flag_read"
                    /\ capture'.songsToAdd = capture.songsToAdd]_vars

\* a finished session with a flagged image and an image whose songs were queued
C13_Witness ==
  /\ capture.pc = "complete"
  /\ \E k \in 1..Len(capture.results) :
       Len(capture.results[k].songs) = 0 /\ FlagCount(capture.results[k].imageUri) = 1
  /\ \E k \in 1..Len(capture.results) :
       /\ Len(capture.results[k].songs) > 0
       /\ \E j \in 1..Len(store) : SourceOf(store[j]) = capture.results[k].imageUri

\* the songs of all processed images that yielded a song, in image order
\* and then detection order
RECURSIVE ExpectedBatch(_)
ExpectedBatch(results) ==
  IF Len(results) = 0 THEN <<>>
  ELSE Staged(Head(results).songs, Head(results).imageUri) \o ExpectedBatch(Tail(results))

\* C14 (Single flush): a capture session changes the stored queue only in
\* the write of addSongsToQueue, which appends the new songs to the queue it
\* read; addSongsToQueue is called only after every selected image has been
\* processed, once, with the songs of all images that yielded a song, in
\* image order and then detection order.
C14_SingleFlush ==
  /\ [][/\ store' # store => (AddWrite /\ store' = store \o capture.newSongs)
        /\ AddRead =>
             /\ Len(capture.results) = Len(capture.images)
             /\ capture.i = Len(capture.images)
             /\ capture.songsToAdd = ExpectedBatch(capture.results)
             /\ capture'.newSongs = NewSongs(ExpectedBatch(capture.results), capture.nextId)
        /\ capture.pc \in {"add_write", "complete"} => capture'.pc # "add_read"]_vars
  /\ [](capture.pc \in {"detect", "flag_read", "flag_write", "add_read"} => capture.newSongs = <<>>)

\* a finished session of two images or more whose batch, with songs of two
\* images, is at the end of the stored queue
C14_Witness ==
  /\ capture.pc = "complete"
  /\ Len(capture.images) > 1
  /\ \E j \in 1..Len(capture.newSongs) : \E k \in 1..Len(capture.newSongs) :
       capture.newSongs[j].sourceImageUri # capture.newSongs[k].sourceImageUri
  /\ Len(store) >= Len(capture.newSongs)
  /\ SubSeq(store, Len(store) - Len(capture.newSongs) + 1, Len(store)) = capture.newSongs

(***************************************************************************)
(* A capture session on one image, with the classifier's answer kept next  *)
(* to the result that detectSongsFromImage made of it.                     *)
(***************************************************************************)
\* line 662, as Detect, for a classifier answer that parsed, for an answer
\* without content and for a failed transport
DetectAnswer ==
  /\ capture.pc = "detect"
  /\ \/ \E parsed \in ParsedAnswers :
          capture' = AfterDetection([capture EXCEPT !.answer = <<parsed>>], DetectionResponse(parsed))
     \/ capture' = AfterDetection([capture EXCEPT !.answer = <<>>], NoContentResponse)
     \/ capture' = AfterDetection([capture EXCEPT !.answer = <<>>], TransportFailure)
  /\ UNCHANGED <<store, registry, defaults, playlist, queue, integrations, loading,
                 syncing, alert, task, started, called, adds, last, rop, regStarted,
                 flagged, lastRead, svc, clock, yt, srv, proc, led>>

InitDetect ==
  /\ store \in InitialQueues
  /\ registry = <<>>
  /\ defaults = DEFAULT_INTEGRATIONS
  /\ playlist = [p \in SyncPlatforms |-> {}]
  /\ queue = <<>>
  /\ integrations = <<>>
  /\ loading = TRUE
  /\ syncing = FALSE
  /\ alert = None
  /\ task = [t \in Tasks |-> IdleTask]
  /\ started = 0
  /\ called = {}
  /\ adds = {}
  /\ last = [s \in SongIds |-> [p \in SyncPlatforms |-> [seen |-> 0, ok |-> FALSE, adds |-> 0]]]
  /\ rop = [o \in RegOps |-> IdleRop]
  /\ regStarted = 0
  /\ flagged = <<>>
  /\ capture = Selecting(1)
  /\ lastRead = NoRead
  /\ svc = IdleSvc
  /\ clock = NumSongs
  /\ yt = IdleYt
  /\ srv = IdleSrv
  /\ proc = IdleProc
  /\ led = IdleLed

NextDetect ==
  \/ StartProcessing
  \/ DetectAnswer
  \/ FlagRead
  \/ FlagWrite
  \/ AddRead
  \/ AddWrite

SpecDetect == InitDetect /\ [][NextDetect]_vars

\* the entries of a classifier answer that carry a title, an artist and a
\* confidence other than low
Trusted(answer) ==
  IF answer = <<>> THEN <<>>
  ELSE SelectSeq(answer[1].songs,
                 LAMBDA e : e.title # None /\ e.artist # None /\ e.confidence # "low")

\* the titles of the stored songs that originate from an image, in order
RECURSIVE TitlesFrom(_, _)
TitlesFrom(q, imageUri) ==
  IF Len(q) = 0 THEN <<>>
  ELSE (IF SourceOf(Head(q)) = imageUri THEN <<Head(q).title>> ELSE <<>>)
       \o TitlesFrom(Tail(q), imageUri)

\* C15: in every detection result success is true exactly when the song
\* list is non-empty, and the list holds the trusted entries of the answer
\* and no other; an answer without a trusted entry gives success = false
\* and no song, its image is flagged and no song of it is staged or stored.
C15_NoLowConfidenceQueued ==
  \A k \in 1..Len(capture.detection) :
    LET det == capture.detection[k]
        img == capture.images[capture.i]
    IN /\ det.success <=> Len(det.songs) > 0
       /\ det.songs = Trusted(capture.answer)
       /\ \A j \in 1..Len(det.songs) : det.songs[j].confidence # "low"
       /\ Len(Trusted(capture.answer)) = 0 =>
            /\ ~det.success
            /\ capture.pc \in {"flag_read", "flag_write", "complete"}
            /\ capture.pc = "complete" => FlagCount(img) = 1
            /\ FromImage(img) = {}
       /\ Len(TitlesFrom(store, img)) > 0 =>
            /\ Len(TitlesFrom(store, img)) = Len(Trusted(capture.answer))
            /\ \A j \in 1..Len(Trusted(capture.answer)) :
                 TitlesFrom(store, img)[j] = Trusted(capture.answer)[j].title

\* an answer whose entries are all low-confidence ended with the image flagged
C15_Witness ==
  /\ capture.pc = "complete"
  /\ capture.answer # <<>>
  /\ Len(capture.answer[1].songs) > 0
  /\ \A j \in 1..Len(capture.answer[1].songs) :
       /\ capture.answer[1].songs[j].confidence = "low"
       /\ capture.answer[1].songs[j].title # None
       /\ capture.answer[1].songs[j].artist # None
  /\ FlagCount(capture.images[capture.i]) = 1

(***************************************************************************)
(* refreshAllConnections alone, on a registry that is stored or not.       *)
(***************************************************************************)
Probes == {"spotifyProbe", "youtubeProbe"}

InitRefresh ==
  /\ store = <<>>
  /\ registry \in InitialRegistries
  /\ defaults = DEFAULT_INTEGRATIONS
  /\ playlist = [p \in SyncPlatforms |-> {}]
  /\ queue = <<>>
  /\ integrations = <<>>
  /\ loading = TRUE
  /\ syncing = FALSE
  /\ alert = None
  /\ task = [t \in Tasks |-> IdleTask]
  /\ started = 0
  /\ called = {}
  /\ adds = {}
  /\ last = [s \in SongIds |-> [p \in SyncPlatforms |-> [seen |-> 0, ok |-> FALSE, adds |-> 0]]]
  /\ rop = [o \in RegOps |-> IdleRop]
  /\ regStarted = 0
  /\ flagged = <<>>
  /\ capture = IdleCapture
  /\ lastRead = NoRead
  /\ svc = IdleSvc
  /\ clock = NumSongs
  /\ yt = IdleYt
  /\ srv = IdleSrv
  /\ proc = IdleProc
  /\ led = IdleLed

NextRefresh ==
  \/ StartRefresh
  \/ \E o \in Probes : ProbeAnswer(o)
  \/ \E o \in Probes : RegistryRead(o)
  \/ \E o \in Probes : RegistryWrite(o)
  \/ RefreshReturn

SpecRefresh == InitRefresh /\ [][NextRefresh]_vars

\* C16 (Probe isolation): when refreshAllConnections returns, the record of
\* each probed platform, as stored and as returned, has the connected and
\* error values its own probe passed to updateIntegration.
C16_ProbeIsolation ==
  [][RefreshReturn =>
       \A o \in Probes :
         /\ getIntegrations[rop[o].platform].connected = rop[o].updates.connected
         /\ getIntegrations[rop[o].platform].error = rop[o].updates.error]_vars

\* C17 (disconnect is atomic): the write of disconnectIntegration(p) leaves
\* p's record with connected = false and without playlist id, playlist
\* name and error, and leaves the record of every other platform as it was.
C17_DisconnectAtomic ==
  [][(RegistryWrite("call") /\ rop["call"].updates = DisconnectUpdates) =>
       LET p == rop["call"].platform
       IN /\ ~getIntegrations'[p].connected
          /\ getIntegrations'[p].selectedPlaylistId = None
          /\ getIntegrations'[p].selectedPlaylistName = None
          /\ getIntegrations'[p].error = None
          /\ \A q \in Platforms \ {p} : getIntegrations'[q] = getIntegrations[q]]_vars

(***************************************************************************)
(* The read functions of the three services on a store whose read may      *)
(* fail: AsyncStorage.getItem rejects.  Each function has a try/catch      *)
(* around its read.  lastRead records what the caller got.                 *)
(***************************************************************************)
\* songQueueService.getSongQueue (23-32): the catch returns []
ReadQueue(ok) ==
  /\ lastRead' = [op |-> "getSongQueue", failed |-> ~ok, threw |-> FALSE,
                  value |-> <<IF ok THEN store ELSE <<>> >>]
  /\ UNCHANGED <<store, registry, defaults, playlist, queue, integrations, loading,
                 syncing, alert, task, started, called, adds, last, rop, regStarted,
                 flagged, capture, svc, clock, yt, srv, proc, led>>

\* integrationsService.getIntegrations (59-70): the catch returns DEFAULT_INTEGRATIONS
ReadRegistry(ok) ==
  /\ lastRead' = [op |-> "getIntegrations", failed |-> ~ok, threw |-> FALSE,
                  value |-> <<IF ok THEN getIntegrations ELSE defaults>>]
  /\ UNCHANGED <<store, registry, defaults, playlist, queue, integrations, loading,
                 syncing, alert, task, started, called, adds, last, rop, regStarted,
                 flagged, capture, svc, clock, yt, srv, proc, led>>

\* processingService.getFlaggedImages (226-233): the catch returns []
ReadFlagged(ok) ==
  /\ lastRead' = [op |-> "getFlaggedImages", failed |-> ~ok, threw |-> FALSE,
                  value |-> <<IF ok THEN flagged ELSE <<>> >>]
  /\ UNCHANGED <<store, registry, defaults, playlist, queue, integrations, loading,
                 syncing, alert, task, started, called, adds, last, rop, regStarted,
                 flagged, capture, svc, clock, yt, srv, proc, led>>

\* addSongsToQueue (34-48) when the getItem inside its getSongQueue call
\* rejects: the catch of lines 28-31 answers [], so updatedQueue = newSongs
AddReadFailed ==
  /\ capture.pc = "add_read"
  /\ LET newSongs == NewSongs(capture.songsToAdd, capture.nextId)
     IN capture' = [capture EXCEPT !.pc = "add_write", !.newSongs = newSongs,
                                   !.updatedQueue = newSongs,
                                   !.nextId = @ + Len(newSongs)]
  /\ UNCHANGED <<store, registry, defaults, playlist, queue, integrations, loading,
                 syncing, alert, task, started, called, adds, last, rop, regStarted,
                 flagged, lastRead, svc, clock, yt, srv, proc, led>>

InitReads ==
  /\ store \in InitialQueues
  /\ registry \in InitialRegistries
  /\ defaults = DEFAULT_INTEGRATIONS
  /\ playlist = [p \in SyncPlatforms |-> {}]
  /\ queue = <<>>
  /\ integrations = <<>>
  /\ loading = TRUE
  /\ syncing = FALSE
  /\ alert = None
  /\ task = [t \in Tasks |-> IdleTask]
  /\ started = 0
  /\ called = {}
  /\ adds = {}
  /\ last = [s \in SongIds |-> [p \in SyncPlatforms |-> [seen |-> 0, ok |-> FALSE, adds |-> 0]]]
  /\ rop = [o \in RegOps |-> IdleRop]
  /\ regStarted = 0
  /\ flagged = <<>>
  /\ \E n \in Images : capture = Selecting(n)
  /\ lastRead = NoRead
  /\ svc = IdleSvc
  /\ clock = NumSongs
  /\ yt = IdleYt
  /\ srv = IdleSrv
  /\ proc = IdleProc
  /\ led = IdleLed

\* the reads, while a capture session fills the queue and the flagged list
NextReads ==
  \/ \E ok \in BOOLEAN : ReadQueue(ok)
  \/ \E ok \in BOOLEAN : ReadRegistry(ok)
  \/ \E ok \in BOOLEAN : ReadFlagged(ok)
  \/ StartProcessing
  \/ Detect
  \/ FlagRead
  \/ FlagWrite
  \/ AddRead
  \/ AddReadFailed
  \/ AddWrite

SpecReads == InitReads /\ [][NextReads]_vars

\* C18 (Store failures are propagated): a read function whose underlying
\* read failed reports the failure to its caller.
C18_ReadFailuresPropagate == lastRead.failed => lastRead.threw

(***************************************************************************)
(* Claims about what a sync operation reads and what it leaves stored.     *)
(***************************************************************************)
\* the loop of the operation is past the pair (songs[i], platforms[k])
Behind(tk, i, k) == tk.pc = "load" \/ i < tk.si \/ (i = tk.si /\ k < tk.pi)

C20_StartsFromStored ==
  [][\A t \in Tasks :
       (task[t].pc = "idle" /\ task'[t].pc # "idle") =>
          /\ task'[t].platforms = getConnectedPlatforms(<<getIntegrations>>)
          /\ task'[t].kind = "all" => task'[t].songs = store
          /\ task'[t].kind = "single" =>
               /\ FindIndex(store, task'[t].songs[1].id) # 0
               /\ task'[t].songs[1] = store[FindIndex(store, task'[t].songs[1].id)]]_vars

(***************************************************************************)
(* songQueueService (part_006) called directly: addSongsToQueue,           *)
(* updateSongSyncStatus, removeSongFromQueue and clearQueue, one action    *)
(* per await, with the record construction of lines 37-42 in full.  A song *)
(* id is `${Date.now()}-${random}`, modelled as the pair <<time, random>>. *)
(* The field `key` is not a field of QueuedSong: it names the record, so   *)
(* that two records with equal ids can be told apart.                      *)
(***************************************************************************)
\* the values of Math.random().toString(36).substr(2, 9)
Rands == {0, 1}

\* the platforms and statuses the callers pass to updateSongSyncStatus
CallStatuses == {SyncedStatus("T1"), FailedStatus("Spotify API error")}

\* the queue an earlier session left: NumSongs songs made one per millisecond
StoredSong(k) ==
  [key |-> k, id |-> <<k, 0>>, title |-> "ta", detectedAt |-> k,
   syncStatus |-> [p \in Platforms |-> NoStatus]]

\* the ids a caller can hold: those of the stored songs and those a new song can get
CallIds ==
  {<<k, 0>> : k \in 1..NumSongs} \cup {<<t, r>> : t \in NumSongs..(NumSongs + 1), r \in Rands}

\* the arrays of new songs a caller passes to addSongsToQueue: the service
\* copies the fields of a song and reads none, so one title stands for all
Batches == SeqsUpTo({"tb"}, MaxDetected) \ {<<>>}

\* the readings of Date.now() along songs.map: each at or after the one before
Stamps(n, from) ==
  {ts \in [1..n -> from..(from + 1)] : \A k \in 1..(n - 1) : ts[k] <= ts[k + 1]}

\* lines 37-42: songs.map(song => ({...song, id, detectedAt, syncStatus: {}}))
CreateSongs(songs, ts, rs, firstKey) ==
  [k \in 1..Len(songs) |->
     [key |-> firstKey + k - 1, id |-> <<ts[k], rs[k]>>, title |-> songs[k],
      detectedAt |-> ts[k], syncStatus |-> [p \in Platforms |-> NoStatus]]]

\* line 44: updatedQueue = [...queue, ...newSongs]
AppendedInFront(q, newSongs) == newSongs \o q

Appended(q, newSongs) == q \o newSongs

\* addSongsToQueue 35-44: getSongQueue answers, the records are made
AppendRead(songs, ts, rs) ==
  /\ svc.append.pc = "idle"
  /\ svc.append.outcome = None
  /\ svc.calls < MaxCalls
  /\ LET newSongs == CreateSongs(songs, ts, rs, NumSongs + 1)
     IN svc' = [svc EXCEPT !.calls = @ + 1,
                           !.append = [IdleCall EXCEPT !.pc = "write", !.newSongs = newSongs,
                                                       !.queue = Appended(getSongQueue, newSongs)]]
  /\ clock' = ts[Len(songs)]
  /\ UNCHANGED <<store, registry, defaults, playlist, queue, integrations, loading,
                 syncing, alert, task, started, called, adds, last, rop, regStarted,
                 flagged, capture, lastRead, yt, srv, proc, led>>

\* addSongsToQueue 45-47: setItem completes, newSongs is returned
AppendWritePartial ==
  /\ svc.append.pc = "write"
  /\ store' = SubSeq(svc.append.queue, 1, Len(svc.append.queue) - 1)
  /\ svc' = [svc EXCEPT !.append.pc = "idle", !.append.queue = <<>>, !.append.outcome = "appended"]
  /\ UNCHANGED <<registry, defaults, playlist, queue, integrations, loading,
                 syncing, alert, task, started, called, adds, last, rop, regStarted,
                 flagged, capture, lastRead, clock, yt, srv, proc, led>>

AppendWrite ==
  /\ svc.append.pc = "write"
  /\ store' = svc.append.queue
  /\ svc' = [svc EXCEPT !.append.pc = "idle", !.append.queue = <<>>, !.append.outcome = "appended"]
  /\ UNCHANGED <<registry, defaults, playlist, queue, integrations, loading,
                 syncing, alert, task, started, called, adds, last, rop, regStarted,
                 flagged, capture, lastRead, clock, yt, srv, proc, led>>

\* updateSongSyncStatus 55-60: what follows the answer of getSongQueue
AfterStatusReadWritesAnyway(q, songId, p, status) ==
  [IdleCall EXCEPT !.pc = "write", !.songId = songId, !.platform = p,
                   !.queue = IF FindIndex(q, songId) = 0 THEN q
                             ELSE SetStatus(q, FindIndex(q, songId), p, status)]

AfterStatusRead(q, songId, p, status) ==
  IF FindIndex(q, songId) = 0
    THEN [IdleCall EXCEPT !.outcome = "absent"]
  ELSE [IdleCall EXCEPT !.pc = "write", !.songId = songId, !.platform = p,
                        !.queue = SetStatus(q, FindIndex(q, songId), p, status)]

StatusRead(songId, p, status) ==
  /\ svc.status.pc = "idle"
  /\ svc.calls < MaxCalls
  /\ svc' = [svc EXCEPT !.calls = @ + 1,
                        !.status = AfterStatusRead(getSongQueue, songId, p, status)]
  /\ UNCHANGED <<store, registry, defaults, playlist, queue, integrations, loading,
                 syncing, alert, task, started, called, adds, last, rop, regStarted,
                 flagged, capture, lastRead, clock, yt, srv, proc, led>>

\* updateSongSyncStatus 61: setItem completes
StatusWrite ==
  /\ svc.status.pc = "write"
  /\ store' = svc.status.queue
  /\ svc' = [svc EXCEPT !.status = [IdleCall EXCEPT !.outcome = "written"]]
  /\ UNCHANGED <<registry, defaults, playlist, queue, integrations, loading,
                 syncing, alert, task, started, called, adds, last, rop, regStarted,
                 flagged, capture, lastRead, clock, yt, srv, proc, led>>

\* queue.filter(s => s.id !== songId)
Without(q, songId) == SelectSeq(q, LAMBDA s : s.id # songId)

\* removeSongFromQueue 65-66: getSongQueue answers, the queue is filtered
RemoveRead(songId) ==
  /\ svc.remove.pc = "idle"
  /\ svc.calls < MaxCalls
  /\ svc' = [svc EXCEPT !.calls = @ + 1,
                        !.remove = [IdleCall EXCEPT !.pc = "write", !.songId = songId,
                                                    !.queue = Without(getSongQueue, songId)]]
  /\ UNCHANGED <<store, registry, defaults, playlist, queue, integrations, loading,
                 syncing, alert, task, started, called, adds, last, rop, regStarted,
                 flagged, capture, lastRead, clock, yt, srv, proc, led>>

\* removeSongFromQueue 67: setItem completes
RemoveWrite ==
  /\ svc.remove.pc = "write"
  /\ store' = svc.remove.queue
  /\ svc' = [svc EXCEPT !.remove = [IdleCall EXCEPT !.outcome = "removed"]]
  /\ UNCHANGED <<registry, defaults, playlist, queue, integrations, loading,
                 syncing, alert, task, started, called, adds, last, rop, regStarted,
                 flagged, capture, lastRead, clock, yt, srv, proc, led>>

\* clearQueue 70-72: setItem of the empty queue completes
ClearQueue ==
  /\ svc.remove.pc = "idle"
  /\ svc.calls < MaxCalls
  /\ store' = <<>>
  /\ svc' = [svc EXCEPT !.calls = @ + 1, !.remove = [IdleCall EXCEPT !.outcome = "cleared"]]
  /\ UNCHANGED <<registry, defaults, playlist, queue, integrations, loading,
                 syncing, alert, task, started, called, adds, last, rop, regStarted,
                 flagged, capture, lastRead, clock, yt, srv, proc, led>>

InitService ==
  /\ store = [k \in 1..NumSongs |-> StoredSong(k)]
  /\ registry = <<>>
  /\ defaults = DEFAULT_INTEGRATIONS
  /\ playlist = [p \in SyncPlatforms |-> {}]
  /\ queue = <<>>
  /\ integrations = <<>>
  /\ loading = TRUE
  /\ syncing = FALSE
  /\ alert = None
  /\ task = [t \in Tasks |-> IdleTask]
  /\ started = 0
  /\ called = {}
  /\ adds = {}
  /\ last = [s \in SongIds |-> [p \in SyncPlatforms |-> [seen |-> 0, ok |-> FALSE, adds |-> 0]]]
  /\ rop = [o \in RegOps |-> IdleRop]
  /\ regStarted = 0
  /\ flagged = <<>>
  /\ capture = IdleCapture
  /\ lastRead = NoRead
  /\ svc = IdleSvc
  /\ clock = NumSongs
  /\ yt = IdleYt
  /\ srv = IdleSrv
  /\ proc = IdleProc
  /\ led = IdleLed

NextService ==
  \/ \E songs \in Batches : \E ts \in Stamps(Len(songs), clock) :
       \E rs \in [1..Len(songs) -> Rands] : AppendRead(songs, ts, rs)
  \/ AppendWrite
  \/ \E songId \in CallIds : \E status \in CallStatuses : StatusRead(songId, "spotify", status)
  \/ StatusWrite
  \/ \E songId \in CallIds : RemoveRead(songId)
  \/ RemoveWrite
  \/ ClearQueue

SpecService == InitService /\ [][NextService]_vars

(***************************************************************************)
(* Claims about songQueueService.                                          *)
(***************************************************************************)
\* the records of a queue, by the model's names for them
KeysOf(q) == {q[i].key : i \in 1..Len(q)}

\* the position of a record in a queue
PosOf(q, key) == CHOOSE i \in 1..Len(q) : q[i].key = key

\* C21: the write of a status update puts no song into the stored queue
\* that was not in it just before: a song that removeSongFromQueue or
\* clearQueue has removed while the update was in flight stays removed.
C21_RemovedStaysRemoved ==
  [][StatusWrite => KeysOf(store') \subseteq KeysOf(store)]_vars

\* C22: updateSongSyncStatus for a song id that the stored queue it reads
\* does not hold returns at once: nothing is thrown, no write is started
\* and the stored queue is as it was; a write is started only with a queue
\* that holds the song.
C22_AbsentIsNoop ==
  /\ [][\A songId \in CallIds : \A status \in CallStatuses :
          (StatusRead(songId, "spotify", status) /\ FindIndex(store, songId) = 0) =>
             /\ svc'.status.pc = "idle"
             /\ svc'.status.outcome = "absent"
             /\ store' = store]_vars
  /\ [](svc.status.pc = "write" => FindIndex(svc.status.queue, svc.status.songId) # 0)

\* a status update found its song gone after a removal, and songs remain
C22_Witness ==
  /\ svc.status.outcome = "absent"
  /\ svc.remove.outcome = "removed"
  /\ Len(store) > 0

\* C23 (appendBatch is all-or-nothing): while addSongsToQueue is in flight
\* the stored queue holds none of its new songs, and its one write stores
\* them all.
C23_BatchAtomic ==
  /\ [](svc.append.pc = "write" => KeysOf(svc.append.newSongs) \cap KeysOf(store) = {})
  /\ [][AppendWrite =>
          /\ KeysOf(svc.append.newSongs) \subseteq KeysOf(store')
          /\ svc'.append.newSongs = svc.append.newSongs]_vars

\* a batch of two songs or more is stored whole
C23_Witness ==
  /\ svc.append.outcome = "appended"
  /\ Len(svc.append.newSongs) > 1
  /\ KeysOf(svc.append.newSongs) \subseteq KeysOf(store)

C25_UniqueIds ==
  /\ [](\A i \in 1..Len(store) : \A j \in 1..Len(store) :
          i # j => store[i].id # store[j].id)
  /\ [][\A a \in KeysOf(store) \cap KeysOf(store') :
          store'[PosOf(store', a)].id = store[PosOf(store, a)].id]_vars

(***************************************************************************)
(* Claims about the stored sync statuses.                                  *)
(***************************************************************************)
\* a status record as syncSongToPlatform builds it: synced with a remote id
\* and no error, or not synced with an error and no remote id
WellShaped(st) ==
  IF st.synced THEN st.remoteId # None /\ st.error = None
  ELSE st.error # None /\ st.remoteId = None

\* C26 (Status shape): every status stored for a song and a platform is
\* synced with a remote id and no error, or not synced with an error; and a
\* status that a reconciliation has written for a stored song is not absent
\* afterwards while the song is stored.
C26_StatusShape ==
  /\ [](\A i \in 1..Len(store) : \A p \in Platforms :
          store[i].syncStatus[p] # NoStatus => WellShaped(store[i].syncStatus[p]))
  /\ [][\A s \in IdsOf(store) \cap IdsOf(store') : \A p \in Platforms :
          StatusOf(store, s, p) # NoStatus => StatusOf(store', s, p) # NoStatus]_vars

(***************************************************************************)
(* Claims about the registry's defaults and the probes.                    *)
(***************************************************************************)
\* C27 (Registry defaults): getIntegrations returns a record for each of
\* the four platforms, and while nothing is stored every record it returns
\* has connected = false, no selected playlist and the static available.
C27_DefaultsWhenNothingStored ==
  /\ DOMAIN getIntegrations = Platforms
  /\ registry = <<>> =>
       \A p \in Platforms :
         /\ ~getIntegrations[p].connected
         /\ getIntegrations[p].selectedPlaylistId = None
         /\ getIntegrations[p].available = DEFAULT_INTEGRATIONS[p].available

\* C28 (Connection error cleared on success): the write of a probe that
\* succeeded leaves its platform's record with connected = true and no
\* error; and in every state of a registry that only probes write, a record
\* with connected = true has no error.
C28_ErrorClearedOnSuccess ==
  /\ [](\A p \in Platforms : getIntegrations[p].connected => getIntegrations[p].error = None)
  /\ [][\A o \in Probes :
          (RegistryWrite(o) /\ rop[o].updates.connected) =>
             /\ getIntegrations'[rop[o].platform].connected
             /\ getIntegrations'[rop[o].platform].error = None]_vars

\* the Spotify probe succeeded and its write left the record connected and
\* without error, while the snapshot the YouTube probe still holds shows the
\* error that the record had before
C28_Witness ==
  /\ rop["spotifyProbe"].pc = "done"
  /\ rop["spotifyProbe"].updates.connected
  /\ getIntegrations["spotify"].connected
  /\ getIntegrations["spotify"].error = None
  /\ rop["youtubeProbe"].pc = "write"
  /\ rop["youtubeProbe"].snap[1]["spotify"].error # None

(***************************************************************************)
(* Claims about the loop of syncAllSongs and about retries.                *)
(***************************************************************************)
\* the operation's queue snapshot holds a pair that lines 168 / 192 let through
HasDuePair(tk) ==
  \E i \in 1..Len(tk.songs) : \E k \in 1..Len(tk.platforms) :
    NeedsSync(tk.songs[i], tk.platforms[k])

\* the stored status is {synced: false, error}
StoredFailed(songId, p) ==
  ~StatusOf(store, songId, p).synced /\ StatusOf(store, songId, p).error # None

\* C29: the check of line 166 does not end the loop of a syncAllSongs that
\* was started from the enabled button: when its snapshot holds a pair that
\* is not synced, the operation goes on to reconcile one.
C29_StopFlagNeverBreaks ==
  [][\A t \in Tasks :
       (task[t].pc = "idle" /\ task'[t].kind = "all" /\ HasDuePair(task'[t])) =>
          task'[t].pc = "fetch"]_vars

\* C30 (Retry): a sync operation that starts on a song whose stored status
\* for an active platform is {synced: false, error} goes on to reconcile a
\* pair; and the write of a reconciliation that succeeded stores
\* {synced: true, remoteId} without an error.
C30_FailedIsRetried ==
  /\ [][\A t \in Tasks :
          (/\ task[t].pc = "idle"
           /\ task'[t].pc # "idle"
           /\ \E i \in 1..Len(task'[t].songs) : \E k \in 1..Len(task'[t].platforms) :
                StoredFailed(task'[t].songs[i].id, task'[t].platforms[k]))
            => task'[t].pc = "fetch"]_vars
  /\ [][\A t \in Tasks :
          (UpdateWrite(t) /\ task[t].status.synced) =>
             StatusOf(store', CurSong(task[t]).id, CurPlatform(task[t]))
               = SyncedStatus(task[t].found)]_vars

(***************************************************************************)
(* Claims about the frame of the service's writes.                         *)
(***************************************************************************)
\* C31 (Frame of a status write): the write of updateSongSyncStatus for
\* song s and platform p leaves the stored queue equal to the queue stored
\* just before it except for syncStatus[p] of s: the other statuses of s,
\* its other fields and every other song are unchanged.
C31_StatusWriteFrame ==
  [][\A t \in Tasks :
       UpdateWrite(t) =>
         /\ FindIndex(store, CurSong(task[t]).id) # 0
         /\ store' = SetStatus(store, FindIndex(store, CurSong(task[t]).id),
                               CurPlatform(task[t]), task[t].status)]_vars

\* C32 (appendBatch never drops existing songs): the write of
\* addSongsToQueue leaves the stored queue equal to the queue stored before
\* it followed by the new songs, also when the call's read of the queue
\* failed.
C32_AppendKeepsExisting ==
  [][AddWrite => store' = store \o capture.newSongs]_vars

(***************************************************************************)
(* The sync operations on a store whose write may fail: the setItem of     *)
(* updateSongSyncStatus (part_006 61) rejects.  Inside the try of          *)
(* syncSongToPlatform the rejection reaches the catch of lines 148-153,    *)
(* which calls updateSongSyncStatus again; a rejection of that call leaves *)
(* syncSongToPlatform.  syncAllSongs catches it (169-173) and goes on with *)
(* its loop; syncSingleSong (193) has no catch, so its promise rejects and *)
(* its lines 196-197 never run.                                            *)
(***************************************************************************)
StorageErrorMessage == "Storage write failed"

UpdateWriteFails(t) ==
  /\ task[t].pc = "upd_write"
  /\ LET tk == task[t]
     IN task' = [task EXCEPT ![t] =
                   IF ~tk.callFailed THEN [OnCallError(tk, StorageErrorMessage) EXCEPT !.tq = <<>>]
                   ELSE IF tk.kind = "all" THEN Return(tk)
                   ELSE IdleTask]
  /\ UNCHANGED <<store, registry, defaults, playlist, queue, integrations, loading,
                 syncing, alert, started, called, adds, last, rop, regStarted,
                 flagged, capture, lastRead, svc, clock, yt, srv, proc, led>>

\* a step of an operation in flight: the answer of the call it awaits
TaskStep ==
  \E t \in Tasks :
    \/ FetchMembership(t)
    \/ SearchCatalog(t)
    \/ AddToPlaylist(t)
    \/ UpdateRead(t)
    \/ UpdateWrite(t)
    \/ UpdateWriteFails(t)
    \/ FinishAll(t)
    \/ SeqFinishSingle(t)

FaultyNext ==
  \/ SeqNext
  \/ \E t \in Tasks : UpdateWriteFails(t)

\* every awaited call is answered, one way or the other; the user's presses
\* are under no obligation
SpecFaulty == Init /\ [][FaultyNext]_vars /\ WF_vars(TaskStep)

\* C33 (The syncing flag is released): whenever the screen's syncing state
\* is true it eventually returns to false, whatever the network and the
\* storage calls of the operation answer.
C33_SyncingReleased == syncing ~> ~syncing

(***************************************************************************)
(* The Integrations screen on a stored registry: the registry operations   *)
(* of its buttons together with the refresh it starts on focus.            *)
(***************************************************************************)
InitSettings == InitRefresh /\ registry # <<>>

SpecSettings == InitSettings /\ [][NextRegistry]_vars

\* C34 (Disconnect holds until a new selection): a platform whose stored
\* record has no selected playlist gets one only by the write of a
\* setSelectedPlaylist call for that platform; on a stored registry the
\* selection is cleared by disconnectIntegration only, so no other step
\* brings a disconnected platform back into the active sync set.
C34_DisconnectHolds ==
  [][\A p \in Platforms :
       (/\ getIntegrations[p].selectedPlaylistId = None
        /\ getIntegrations'[p].selectedPlaylistId # None)
         => /\ RegistryWrite("call")
            /\ rop["call"].platform = p
            /\ "selectedPlaylistId" \in DOMAIN rop["call"].updates]_vars

(***************************************************************************)
(* youtubeAuthService: the tokens stored under @youtube_tokens and the     *)
(* calls that use them.  A YouTubeTokens value is modelled by where it     *)
(* came from and by whether Date.now() has reached its expires_at.  One    *)
(* YouTube call (youtubeFetch, 272-296) or one connection probe            *)
(* (checkYouTubeConnection, part_004 103-139) is in flight at a time; the  *)
(* Disconnect button and the OAuth exchange may run between its awaits.    *)
(* yt.cleared: a clearTokens has completed and no exchange has stored      *)
(* tokens since.  yt.stored: the `connected` value the latest probe passed *)
(* to updateIntegration.  The client id is configured.                     *)
(***************************************************************************)
YtTokens(from) == [from |-> from, expired |-> FALSE]

YtKinds == {"call", "probe"}

\* the statuses of a YouTube API response
YtStatuses == {200, 401, 403, 500}

\* the call ends: youtubeFetch returns or throws; the probe passes
\* `connected` to updateIntegration
YtEnd(outcome) ==
  [yt EXCEPT !.call = [IdleYtCall EXCEPT !.outcome = outcome],
             !.stored = IF yt.call.kind = "probe" THEN (outcome = "ok") ELSE @]

\* a YouTube call is made (getYouTubePlaylists, searchYouTubeVideo, ...), or
\* the probe is started and calls getYouTubeAuthStatus
YtStart(kind) ==
  /\ yt.call.pc = "idle"
  /\ yt.ops < MaxYtOps
  /\ yt' = [yt EXCEPT !.ops = @ + 1,
                      !.call = [IdleYtCall EXCEPT !.pc = IF kind = "probe" THEN "status" ELSE "load",
                                                  !.kind = kind, !.after = yt.cleared]]
  /\ UNCHANGED <<store, registry, defaults, playlist, queue, integrations, loading,
                 syncing, alert, task, started, called, adds, last, rop, regStarted,
                 flagged, capture, lastRead, svc, clock, srv, proc, led>>

\* checkYouTubeConnection 105-121: loadTokens answers; connected = !!tokens
YtStatus ==
  /\ yt.call.pc = "status"
  /\ yt' = IF yt.tokens = <<>> THEN YtEnd("not_connected")
           ELSE [yt EXCEPT !.call.pc = "load"]
  /\ UNCHANGED <<store, registry, defaults, playlist, queue, integrations, loading,
                 syncing, alert, task, started, called, adds, last, rop, regStarted,
                 flagged, capture, lastRead, svc, clock, srv, proc, led>>

\* getYouTubeAccessToken 249-259: loadTokens answers; the request is sent
\* with an unexpired token (pc "fetch"), an expired one is refreshed
YtLoad ==
  /\ yt.call.pc = "load"
  /\ yt' = IF yt.tokens = <<>> THEN YtEnd("not_connected")
           ELSE IF ~yt.tokens[1].expired THEN [yt EXCEPT !.call.pc = "fetch", !.call.tok = yt.tokens]
           ELSE [yt EXCEPT !.call.pc = "refresh", !.call.tok = yt.tokens]
  /\ UNCHANGED <<store, registry, defaults, playlist, queue, integrations, loading,
                 syncing, alert, task, started, called, adds, last, rop, regStarted,
                 flagged, capture, lastRead, svc, clock, srv, proc, led>>

\* refreshAccessToken 217-245: the token endpoint answers, or the fetch fails
YtRefresh(ok) ==
  /\ yt.call.pc = "refresh"
  /\ yt' = IF ok THEN [yt EXCEPT !.call.pc = "save", !.call.tok = <<YtTokens("refresh")>>]
           ELSE [yt EXCEPT !.call.pc = "clear", !.call.tok = <<>>]
  /\ UNCHANGED <<store, registry, defaults, playlist, queue, integrations, loading,
                 syncing, alert, task, started, called, adds, last, rop, regStarted,
                 flagged, capture, lastRead, svc, clock, srv, proc, led>>

\* refreshAccessToken 240 / saveTokens 60-66: setItem completes; the
\* request is sent with the new access token
YtSave ==
  /\ yt.call.pc = "save"
  /\ yt' = [yt EXCEPT !.tokens = yt.call.tok, !.call.pc = "fetch"]
  /\ UNCHANGED <<store, registry, defaults, playlist, queue, integrations, loading,
                 syncing, alert, task, started, called, adds, last, rop, regStarted,
                 flagged, capture, lastRead, svc, clock, srv, proc, led>>

\* youtubeFetch 286-295: the API answers
YtResponse(status) ==
  /\ yt.call.pc = "fetch"
  /\ yt' = IF status = 200 THEN YtEnd("ok")
           ELSE IF status \in {401, 403} THEN [yt EXCEPT !.call.pc = "clear", !.call.tok = <<>>]
           ELSE YtEnd("api_error")
  /\ UNCHANGED <<store, registry, defaults, playlist, queue, integrations, loading,
                 syncing, alert, task, started, called, adds, last, rop, regStarted,
                 flagged, capture, lastRead, svc, clock, srv, proc, led>>

\* clearTokens (68-74) of lines 262 and 288: removeItem completes; the call
\* throws "YouTube session expired"
YtClear ==
  /\ yt.call.pc = "clear"
  /\ yt' = [YtEnd("expired") EXCEPT !.tokens = <<>>, !.cleared = TRUE]
  /\ UNCHANGED <<store, registry, defaults, playlist, queue, integrations, loading,
                 syncing, alert, task, started, called, adds, last, rop, regStarted,
                 flagged, capture, lastRead, svc, clock, srv, proc, led>>

\* disconnectYouTube (268-270)
YtDisconnect ==
  /\ yt.ops < MaxYtOps
  /\ yt' = [yt EXCEPT !.tokens = <<>>, !.cleared = TRUE, !.ops = @ + 1]
  /\ UNCHANGED <<store, registry, defaults, playlist, queue, integrations, loading,
                 syncing, alert, task, started, called, adds, last, rop, regStarted,
                 flagged, capture, lastRead, svc, clock, srv, proc, led>>

\* exchangeCodeForTokens (156-206) with a refresh token in the answer:
\* the new tokens are stored
YtExchange ==
  /\ yt.ops < MaxYtOps
  /\ yt' = [yt EXCEPT !.tokens = <<YtTokens("exchange")>>, !.cleared = FALSE,
                      !.call.after = FALSE, !.ops = @ + 1]
  /\ UNCHANGED <<store, registry, defaults, playlist, queue, integrations, loading,
                 syncing, alert, task, started, called, adds, last, rop, regStarted,
                 flagged, capture, lastRead, svc, clock, srv, proc, led>>

\* time passes: Date.now() reaches expires_at of the stored tokens
YtExpire ==
  /\ yt.tokens # <<>>
  /\ ~yt.tokens[1].expired
  /\ yt' = [yt EXCEPT !.tokens[1].expired = TRUE]
  /\ UNCHANGED <<store, registry, defaults, playlist, queue, integrations, loading,
                 syncing, alert, task, started, called, adds, last, rop, regStarted,
                 flagged, capture, lastRead, svc, clock, srv, proc, led>>

\* an installation that was connected to YouTube in an earlier session
InitYouTube ==
  /\ store = <<>>
  /\ registry = <<>>
  /\ defaults = DEFAULT_INTEGRATIONS
  /\ playlist = [p \in SyncPlatforms |-> {}]
  /\ queue = <<>>
  /\ integrations = <<>>
  /\ loading = TRUE
  /\ syncing = FALSE
  /\ alert = None
  /\ task = [t \in Tasks |-> IdleTask]
  /\ started = 0
  /\ called = {}
  /\ adds = {}
  /\ last = [s \in SongIds |-> [p \in SyncPlatforms |-> [seen |-> 0, ok |-> FALSE, adds |-> 0]]]
  /\ rop = [o \in RegOps |-> IdleRop]
  /\ regStarted = 0
  /\ flagged = <<>>
  /\ capture = IdleCapture
  /\ lastRead = NoRead
  /\ svc = IdleSvc
  /\ clock = NumSongs
  /\ \E from \in {"exchange", "refresh"} : yt = [IdleYt EXCEPT !.tokens = <<YtTokens(from)>>]
  /\ srv = IdleSrv
  /\ proc = IdleProc
  /\ led = IdleLed

NextYouTube ==
  \/ \E kind \in YtKinds : YtStart(kind)
  \/ YtStatus
  \/ YtLoad
  \/ \E ok \in BOOLEAN : YtRefresh(ok)
  \/ YtSave
  \/ \E status \in YtStatuses : YtResponse(status)
  \/ YtClear
  \/ YtDisconnect
  \/ YtExchange
  \/ YtExpire

SpecYouTube == InitYouTube /\ [][NextYouTube]_vars

\* C35 (YouTube session state): a call or probe that was started after the
\* tokens were cleared, with no authorization-code exchange since, does not
\* send a request to the YouTube API and ends with the not-connected error,
\* and such a probe stores connected = false; and a response with a status
\* other than 401 and 403 leaves the stored tokens as they are.
C35_ClearedStaysCleared ==
  /\ [](yt.call.after => yt.call.pc # "fetch")
  /\ [][(yt.call.after /\ yt.call.pc # "idle" /\ yt'.call.pc = "idle") =>
          /\ yt'.call.outcome = "not_connected"
          /\ yt.call.kind = "probe" => yt'.stored = FALSE]_vars
  /\ [][\A status \in YtStatuses \ {401, 403} :
          YtResponse(status) => yt'.tokens = yt.tokens]_vars

(***************************************************************************)
(* server/index.ts: the Spotify access-token cache (57-58), filled by      *)
(* getSpotifyAccessToken (60-101) and emptied by spotifyFetch (103-130).   *)
(* The server handles requests concurrently: every await of a request is a *)
(* point where another request may run.  The connector's credentials are   *)
(* configured.  Time is counted in ticks; srv.conn is the access token the *)
(* connector currently answers with; srv.dirty: a 401 has been handled and *)
(* no request has been started since.                                      *)
(***************************************************************************)
\* line 98: the lifetime recorded for a cached token (3500 s), in ticks
TokenTtl == 2

SpotifyStatuses == {200, 401, 500}

SrvTokens == {1, 2}

\* line 61
CacheValid == srv.cached # <<>> /\ srv.now < srv.cached[1].expiresAt

\* spotifyFetch 104 / getSpotifyAccessToken 61-84: a cached token that has
\* not expired is used for the request at once; otherwise the connector is
\* asked
SrvStart(r) ==
  /\ srv.req[r].pc = "idle"
  /\ srv.started < MaxSrvReqs
  /\ srv' = [srv EXCEPT
       !.started = @ + 1,
       !.dirty = FALSE,
       !.req[r] = IF CacheValid
                    THEN [pc |-> "fetch", token |-> srv.cached[1].token, fromCache |-> TRUE,
                          sentAt |-> srv.now, expiresAt |-> srv.cached[1].expiresAt]
                    ELSE [IdleReq EXCEPT !.pc = "connector"]]
  /\ UNCHANGED <<store, registry, defaults, playlist, queue, integrations, loading,
                 syncing, alert, task, started, called, adds, last, rop, regStarted,
                 flagged, capture, lastRead, svc, clock, yt, proc, led>>

\* line 76: the connector answers with its current token
SrvConnector(r) ==
  /\ srv.req[r].pc = "connector"
  /\ srv' = [srv EXCEPT !.req[r].pc = "parse", !.req[r].token = srv.conn]
  /\ UNCHANGED <<store, registry, defaults, playlist, queue, integrations, loading,
                 syncing, alert, task, started, called, adds, last, rop, regStarted,
                 flagged, capture, lastRead, svc, clock, yt, proc, led>>

\* lines 86-100: the body is parsed; without a token the request throws,
\* else the token is cached with its expiry and used for the request
SrvParsed(r, hasToken) ==
  /\ srv.req[r].pc = "parse"
  /\ srv' = IF ~hasToken THEN [srv EXCEPT !.req[r] = IdleReq]
            ELSE [srv EXCEPT
                    !.cached = <<[token |-> srv.req[r].token, expiresAt |-> srv.now + TokenTtl]>>,
                    !.req[r].pc = "fetch", !.req[r].sentAt = srv.now,
                    !.req[r].expiresAt = srv.now + TokenTtl]
  /\ UNCHANGED <<store, registry, defaults, playlist, queue, integrations, loading,
                 syncing, alert, task, started, called, adds, last, rop, regStarted,
                 flagged, capture, lastRead, svc, clock, yt, proc, led>>

\* lines 115-129: Spotify answers; a 401 empties the cache
SrvResponse(r, status) ==
  /\ srv.req[r].pc = "fetch"
  /\ srv' = IF status = 401
              THEN [srv EXCEPT !.cached = <<>>, !.dirty = TRUE, !.req[r] = IdleReq]
              ELSE [srv EXCEPT !.req[r] = IdleReq]
  /\ UNCHANGED <<store, registry, defaults, playlist, queue, integrations, loading,
                 syncing, alert, task, started, called, adds, last, rop, regStarted,
                 flagged, capture, lastRead, svc, clock, yt, proc, led>>

\* time passes
SrvTick ==
  /\ srv.now < MaxNow
  /\ srv' = [srv EXCEPT !.now = @ + 1]
  /\ UNCHANGED <<store, registry, defaults, playlist, queue, integrations, loading,
                 syncing, alert, task, started, called, adds, last, rop, regStarted,
                 flagged, capture, lastRead, svc, clock, yt, proc, led>>

\* the connector renews the access token of the connection
ConnectorRenews ==
  /\ srv.conn + 1 \in SrvTokens
  /\ srv' = [srv EXCEPT !.conn = @ + 1]
  /\ UNCHANGED <<store, registry, defaults, playlist, queue, integrations, loading,
                 syncing, alert, task, started, called, adds, last, rop, regStarted,
                 flagged, capture, lastRead, svc, clock, yt, proc, led>>

NextServer ==
  \/ \E r \in SrvReqs : SrvStart(r)
  \/ \E r \in SrvReqs : SrvConnector(r)
  \/ \E r \in SrvReqs : \E hasToken \in BOOLEAN : SrvParsed(r, hasToken)
  \/ \E r \in SrvReqs : \E status \in SpotifyStatuses : SrvResponse(r, status)
  \/ SrvTick
  \/ ConnectorRenews

SpecServer == InitRegistry /\ [][NextServer]_vars

\* C36 (Spotify token cache): a request sent with a token taken from the
\* cache is sent before the expiry recorded for that token; the handling of
\* a 401 response leaves the cache empty; and the first request started
\* after a 401 was handled asks the connector for its token.
C36_TokenCache ==
  /\ [](\A r \in SrvReqs :
          (srv.req[r].pc = "fetch" /\ srv.req[r].fromCache) =>
             srv.req[r].sentAt < srv.req[r].expiresAt)
  /\ [][\A r \in SrvReqs : SrvResponse(r, 401) => srv'.cached = <<>>]_vars
  /\ [][\A r \in SrvReqs :
          (SrvStart(r) /\ srv.dirty) => srv'.req[r].pc = "connector"]_vars

(***************************************************************************)
(* processingService.processImages (266-417): one run over the picked      *)
(* images, against the Spotify playlist.  An image is named by its index,  *)
(* a detected song by its title; the search answers as Catalog does or     *)
(* throws.  proc.existing is the run's existingTrackIds set; proc.real     *)
(* holds the track ids that were in the playlist when the run fetched it   *)
(* or that an add call of the run has added since.                         *)
(***************************************************************************)
\* the answers of detectSongsFromImage
ProcDetections ==
  {[success |-> FALSE, songs |-> <<>>]}
    \cup {[success |-> TRUE, songs |-> s] : s \in SeqsUpTo(Titles, MaxDetected)}

CountStatus(songs, statuses) ==
  Cardinality({k \in 1..Len(songs) : songs[k].status \in statuses})

\* lines 382-387
ClassifyAllDuplicatesSucceed(added, duplicates, failed, n) ==
  IF added = 0 /\ failed > 0
    THEN (IF duplicates > 0 THEN "partial" ELSE "failed")
  ELSE IF failed > 0 THEN "partial"
  ELSE "success"

Classify(added, duplicates, failed, n) ==
  IF added = 0 /\ (failed > 0 \/ duplicates = n)
    THEN (IF duplicates > 0 THEN "partial" ELSE "failed")
  ELSE IF failed > 0 THEN "partial"
  ELSE "success"

\* the results of lines 301-310 and 406-415
FailedResult(imageUri, error) ==
  [imageUri |-> imageUri, status |-> "failed", songsFound |-> 0, songsAdded |-> 0,
   songsDuplicate |-> 0, songsFailed |-> 0, songs |-> <<>>, error |-> error]

\* the for loop of line 275 goes on to the next image, or the run returns
ProcNextImage(pr) ==
  IF pr.i = Len(pr.images) THEN [pr EXCEPT !.pc = "done"]
  ELSE [pr EXCEPT !.pc = "detect", !.i = @ + 1]

\* results.push(...), at the end of the iteration
ProcPush(pr, result) ==
  ProcNextImage([pr EXCEPT !.results = Append(@, result), !.det = <<>>, !.j = 0,
                           !.processed = <<>>, !.tracksToAdd = <<>>,
                           !.pending = <<>>, !.error = None])

\* the image is flagged first, its result is pushed after the ledger write
ProcFlag(pr, error, result) ==
  [pr EXCEPT !.pc = "flag_read", !.error = error, !.pending = <<result>>]

\* lines 378-401
ProcConclude(pr) ==
  LET added      == CountStatus(pr.processed, {"added"})
      duplicates == CountStatus(pr.processed, {"duplicate"})
      failed     == CountStatus(pr.processed, {"not_found", "error"})
      status     == Classify(added, duplicates, failed, Len(pr.processed))
      result     == [imageUri |-> pr.images[pr.i], status |-> status,
                     songsFound |-> Len(pr.det), songsAdded |-> added,
                     songsDuplicate |-> duplicates, songsFailed |-> failed,
                     songs |-> pr.processed, error |-> None]
  IN IF status = "failed" THEN ProcFlag(pr, "No songs could be added to playlist", result)
     ELSE ProcPush(pr, result)

\* line 366, after the loop over the detected songs
AfterSongs(pr) ==
  IF Len(pr.tracksToAdd) > 0 THEN [pr EXCEPT !.pc = "add"] ELSE ProcConclude(pr)

\* processImages is called with n images
ProcStart(n) ==
  /\ proc.pc = "idle"
  /\ proc' = [proc EXCEPT !.pc = "membership", !.images = [k \in 1..n |-> k]]
  /\ UNCHANGED <<store, registry, defaults, playlist, queue, integrations, loading,
                 syncing, alert, task, started, called, adds, last, rop, regStarted,
                 flagged, capture, lastRead, svc, clock, yt, srv, led>>

\* line 273: getPlaylistTracks answers, or throws out of processImages
ProcMembership(ok) ==
  /\ proc.pc = "membership"
  /\ proc' = IF ~ok THEN [proc EXCEPT !.pc = "threw"]
             ELSE ProcNextImage([proc EXCEPT !.existing = playlist["spotify"],
                                             !.real = playlist["spotify"]])
  /\ UNCHANGED <<store, registry, defaults, playlist, queue, integrations, loading,
                 syncing, alert, task, started, called, adds, last, rop, regStarted,
                 flagged, capture, lastRead, svc, clock, yt, srv, led>>

\* lines 287-312: the image is read and the detection answers
ProcDetect(d) ==
  /\ proc.pc = "detect"
  /\ proc' = IF ~d.success \/ Len(d.songs) = 0
               THEN ProcFlag(proc, "No songs detected",
                             FailedResult(proc.images[proc.i], "No songs detected"))
             ELSE [proc EXCEPT !.pc = "search", !.det = d.songs, !.j = 1]
  /\ UNCHANGED <<store, registry, defaults, playlist, queue, integrations, loading,
                 syncing, alert, task, started, called, adds, last, rop, regStarted,
                 flagged, capture, lastRead, svc, clock, yt, srv, led>>

\* lines 287 / 297 throw: the catch of lines 403-416
ProcDetectThrows ==
  /\ proc.pc = "detect"
  /\ proc' = ProcFlag(proc, "Processing failed",
                      FailedResult(proc.images[proc.i], "Processing failed"))
  /\ UNCHANGED <<store, registry, defaults, playlist, queue, integrations, loading,
                 syncing, alert, task, started, called, adds, last, rop, regStarted,
                 flagged, capture, lastRead, svc, clock, yt, srv, led>>

\* lines 326-363: searchSong answers for the song, or throws
ProcSearch(ok) ==
  /\ proc.pc = "search"
  /\ LET title   == proc.det[proc.j]
         trackId == Catalog("spotify", title)
         status  == IF ~ok THEN "error"
                    ELSE IF trackId = None THEN "not_found"
                    ELSE IF trackId \in proc.existing THEN "duplicate"
                    ELSE "added"
         pr == [proc EXCEPT
                  !.processed = Append(@, [title |-> title, status |-> status,
                                           trackId |-> IF ok THEN trackId ELSE None]),
                  !.tracksToAdd = IF status = "added" THEN Append(@, trackId) ELSE @,
                  !.existing = IF status = "added" THEN @ \cup {trackId} ELSE @]
     IN proc' = IF proc.j < Len(proc.det) THEN [pr EXCEPT !.j = @ + 1]
                ELSE AfterSongs(pr)
  /\ UNCHANGED <<store, registry, defaults, playlist, queue, integrations, loading,
                 syncing, alert, task, started, called, adds, last, rop, regStarted,
                 flagged, capture, lastRead, svc, clock, yt, srv, led>>

\* line 375: addTracksToPlaylist answers
ProcAdd ==
  /\ proc.pc = "add"
  /\ LET tracks == {proc.tracksToAdd[k] : k \in 1..Len(proc.tracksToAdd)}
     IN /\ playlist' = [playlist EXCEPT !["spotify"] = @ \cup tracks]
        /\ proc' = ProcConclude([proc EXCEPT !.real = @ \cup tracks])
  /\ UNCHANGED <<store, registry, defaults, queue, integrations, loading,
                 syncing, alert, task, started, called, adds, last, rop, regStarted,
                 flagged, capture, lastRead, svc, clock, yt, srv, led>>

\* line 375 throws: the catch of lines 403-416
ProcAddThrows ==
  /\ proc.pc = "add"
  /\ proc' = ProcFlag(proc, "Spotify API error",
                      FailedResult(proc.images[proc.i], "Spotify API error"))
  /\ UNCHANGED <<store, registry, defaults, playlist, queue, integrations, loading,
                 syncing, alert, task, started, called, adds, last, rop, regStarted,
                 flagged, capture, lastRead, svc, clock, yt, srv, led>>

\* addFlaggedImage 236-242: getFlaggedImages answers, the record is pushed
ProcFlagRead ==
  /\ proc.pc = "flag_read"
  /\ proc' = [proc EXCEPT
       !.pc = "flag_write",
       !.fl = Append(flagged, [imageUri |-> proc.images[proc.i], error |-> proc.error])]
  /\ UNCHANGED <<store, registry, defaults, playlist, queue, integrations, loading,
                 syncing, alert, task, started, called, adds, last, rop, regStarted,
                 flagged, capture, lastRead, svc, clock, yt, srv, led>>

\* addFlaggedImage 243: setItem completes; the result is pushed
ProcFlagWrite ==
  /\ proc.pc = "flag_write"
  /\ flagged' = proc.fl
  /\ proc' = ProcPush([proc EXCEPT !.fl = <<>>], proc.pending[1])
  /\ UNCHANGED <<store, registry, defaults, playlist, queue, integrations, loading,
                 syncing, alert, task, started, called, adds, last, rop, regStarted,
                 capture, lastRead, svc, clock, yt, srv, led>>

InitProcess ==
  /\ store = <<>>
  /\ registry = <<>>
  /\ defaults = DEFAULT_INTEGRATIONS
  /\ playlist \in InitialPlaylists
  /\ queue = <<>>
  /\ integrations = <<>>
  /\ loading = TRUE
  /\ syncing = FALSE
  /\ alert = None
  /\ task = [t \in Tasks |-> IdleTask]
  /\ started = 0
  /\ called = {}
  /\ adds = {}
  /\ last = [s \in SongIds |-> [p \in SyncPlatforms |-> [seen |-> 0, ok |-> FALSE, adds |-> 0]]]
  /\ rop = [o \in RegOps |-> IdleRop]
  /\ regStarted = 0
  /\ flagged = <<>>
  /\ capture = IdleCapture
  /\ lastRead = NoRead
  /\ svc = IdleSvc
  /\ clock = NumSongs
  /\ yt = IdleYt
  /\ srv = IdleSrv
  /\ proc = IdleProc
  /\ led = IdleLed

NextProcess ==
  \/ \E n \in Images : ProcStart(n)
  \/ \E ok \in BOOLEAN : ProcMembership(ok)
  \/ \E d \in ProcDetections : ProcDetect(d)
  \/ ProcDetectThrows
  \/ \E ok \in BOOLEAN : ProcSearch(ok)
  \/ ProcAdd
  \/ ProcAddThrows
  \/ ProcFlagRead
  \/ ProcFlagWrite

SpecProcess == InitProcess /\ [][NextProcess]_vars

\* C37 (Duplicates are real): every song that a result of the run reports
\* as 'duplicate' has a track id that was in the playlist when the run
\* fetched it or that a successful add call of the run has added.
C37_DuplicateIsReal ==
  \A k \in 1..Len(proc.results) :
    \A m \in 1..Len(proc.results[k].songs) :
      proc.results[k].songs[m].status = "duplicate" =>
        proc.results[k].songs[m].trackId \in proc.real

\* C38 (Image classification): a pushed result of an image with detected
\* songs and no exception is 'success' exactly when at least one of its
\* songs was added and none failed, 'failed' exactly when none was added
\* and none was a duplicate, and 'partial' otherwise; once its result is
\* pushed the image has one ledger record when it is 'failed' and none when
\* it is 'success' or 'partial'.
C38_ImageClassification ==
  \A k \in 1..Len(proc.results) :
    LET r          == proc.results[k]
        added      == CountStatus(r.songs, {"added"})
        duplicates == CountStatus(r.songs, {"duplicate"})
        failed     == CountStatus(r.songs, {"not_found", "error"})
    IN (r.error = None /\ r.songsFound > 0) =>
         /\ r.status \in {"success", "partial", "failed"}
         /\ r.status = "success" <=> (added >= 1 /\ failed = 0)
         /\ r.status = "failed" <=> (added = 0 /\ duplicates = 0)
         /\ FlagCount(r.imageUri) = IF r.status = "failed" THEN 1 ELSE 0

\* one run has pushed a 'failed' result for an image whose only song was
\* not found, with one ledger record, and a 'partial' result for an image
\* whose songs were all duplicates, with none
C38_Witness ==
  /\ proc.pc = "done"
  /\ \E k \in 1..Len(proc.results) :
       /\ proc.results[k].status = "failed"
       /\ proc.results[k].error = None
       /\ proc.results[k].songsFailed = proc.results[k].songsFound
       /\ FlagCount(proc.results[k].imageUri) = 1
  /\ \E k \in 1..Len(proc.results) :
       /\ proc.results[k].status = "partial"
       /\ proc.results[k].songsDuplicate = proc.results[k].songsFound
       /\ FlagCount(proc.results[k].imageUri) = 0

(***************************************************************************)
(* The flagged-image ledger with its records in full (part_003 216-254):   *)
(* addFlaggedImage called by the processing code, removeFlaggedImage and   *)
(* clearFlaggedImages called by the Flagged screen (part_001 37-58).  Each *)
(* of add and remove reads the ledger, then writes it back whole.  The id  *)
(* of a record is the reading of Date.now() at its creation; two calls may *)
(* get the same reading.  `key` is not a field of the source: it tells     *)
(* the records apart in the formulas.                                      *)
(***************************************************************************)
LedgerKeys(l) == {l[k].key : k \in 1..Len(l)}

\* flagged.filter(img => img.id !== id)
RECURSIVE FilterOut(_, _)
FilterOut(l, id) ==
  IF Len(l) = 0 THEN <<>>
  ELSE IF Head(l).id # id THEN <<Head(l)>> \o FilterOut(Tail(l), id)
  ELSE FilterOut(Tail(l), id)

\* addFlaggedImage 236-242: getFlaggedImages answers; the record is pushed
\* with id = Date.now().toString()
LedAddRead(imageUri, tick) ==
  /\ led.add.pc = "idle"
  /\ led.count < MaxFlagged
  /\ clock' = clock + tick
  /\ led' = [led EXCEPT
       !.count = @ + 1,
       !.add = [pc |-> "write",
                list |-> Append(flagged, [key |-> led.count + 1, id |-> clock',
                                          imageUri |-> imageUri,
                                          error |-> "No songs detected",
                                          timestamp |-> clock'])]]
  /\ UNCHANGED <<store, registry, defaults, playlist, queue, integrations, loading,
                 syncing, alert, task, started, called, adds, last, rop, regStarted,
                 flagged, capture, lastRead, svc, yt, srv, proc>>

\* addFlaggedImage 243: setItem completes
LedAddWrite ==
  /\ led.add.pc = "write"
  /\ flagged' = led.add.list
  /\ led' = [led EXCEPT !.add = IdleLed.add]
  /\ UNCHANGED <<store, registry, defaults, playlist, queue, integrations, loading,
                 syncing, alert, task, started, called, adds, last, rop, regStarted,
                 capture, lastRead, svc, clock, yt, srv, proc>>

\* handleRemove(item.id) for the record flagged[k] of the list on screen;
\* removeFlaggedImage 247-248: getFlaggedImages answers, the list is filtered
LedRemoveRead(k) ==
  /\ led.remove.pc = "idle"
  /\ k \in 1..Len(flagged)
  /\ led' = [led EXCEPT !.remove = [pc |-> "write", list |-> FilterOut(flagged, flagged[k].id),
                                    id |-> flagged[k].id, key |-> flagged[k].key]]
  /\ UNCHANGED <<store, registry, defaults, playlist, queue, integrations, loading,
                 syncing, alert, task, started, called, adds, last, rop, regStarted,
                 flagged, capture, lastRead, svc, clock, yt, srv, proc>>

\* removeFlaggedImage 249: setItem completes
LedRemoveWrite ==
  /\ led.remove.pc = "write"
  /\ flagged' = led.remove.list
  /\ led' = [led EXCEPT !.remove = IdleLed.remove]
  /\ UNCHANGED <<store, registry, defaults, playlist, queue, integrations, loading,
                 syncing, alert, task, started, called, adds, last, rop, regStarted,
                 capture, lastRead, svc, clock, yt, srv, proc>>

\* clearFlaggedImages (252-254)
ClearFlagged ==
  /\ Len(flagged) > 0
  /\ flagged' = <<>>
  /\ UNCHANGED <<store, registry, defaults, playlist, queue, integrations, loading,
                 syncing, alert, task, started, called, adds, last, rop, regStarted,
                 capture, lastRead, svc, clock, yt, srv, proc, led>>

NextLedger ==
  \/ \E imageUri \in Images : \E tick \in {0, 1} : LedAddRead(imageUri, tick)
  \/ LedAddWrite
  \/ \E k \in 1..MaxFlagged : LedRemoveRead(k)
  \/ LedRemoveWrite
  \/ ClearFlagged

SpecLedger == InitRegistry /\ [][NextLedger]_vars

\* the same with one call at a time
SeqLedger ==
  \/ led.remove.pc = "idle" /\ \E imageUri \in Images : \E tick \in {0, 1} : LedAddRead(imageUri, tick)
  \/ LedAddWrite
  \/ led.add.pc = "idle" /\ \E k \in 1..MaxFlagged : LedRemoveRead(k)
  \/ LedRemoveWrite
  \/ led.add.pc = "idle" /\ led.remove.pc = "idle" /\ ClearFlagged

SpecLedgerSeq == InitRegistry /\ [][SeqLedger]_vars

\* C39 (Dismissing removes exactly one record): the write of
\* removeFlaggedImage(id) leaves the ledger with the records it held just
\* before except the one record the call was made for.
C39_RemoveExactlyOne ==
  [][LedRemoveWrite =>
       LedgerKeys(flagged') = LedgerKeys(flagged) \ {led.remove.key}]_vars
====
